---- MODULE Spec2Model ----
(***************************************************************************)
(* A model of the model-orchestration layer of SmartHomework               *)
(* (src/services/geminiService.ts): the response sanitizer                 *)
(* cleanAndParseJSON, the tiered caller callAI, and the pipelines built on *)
(* them.                                                                   *)
(*                                                                         *)
(* Text is a sequence of characters, each a string.  The alphabet has no   *)
(* backslash, sign, decimal point or tab, so string escapes, negative and  *)
(* fractional numbers are outside the modelled inputs.  Positions are      *)
(* 1-based; 0 plays the role of the -1 that indexOf returns.               *)
(***************************************************************************)
EXTENDS Integers, Sequences, FiniteSets, TLC

VARIABLES
    parseIn,      \* the input handed to cleanAndParseJSON (a shaped record)
    parseOut,     \* what cleanAndParseJSON did with it
    callPc,       \* position of one callAI call
    callPrimary,  \* its primaryModel argument
    callFallback, \* its fallbackModel argument
    callInvoked,  \* the model ids handed to apiCall, in order
    callSettled,  \* what each apiCall invocation settled with, in order
    callResult,   \* what the call returned or threw
    hwPc,         \* position of one analyzeHomework run
    hwLog,        \* its provider invocations, [stage, model, outcome] each
    hwContext,    \* subject, topic, has_student_solution, grading_rules (line 184)
    hwModel,      \* analysisRes.model
    hwProblems,   \* rawResponse.problems
    hwToRefine,   \* problemsToRefine
    hwOriginal,   \* rawResponse.problems as the deep analysis gave it (line 220)
    hwRefined,    \* refinedData
    hwResult,     \* what the run returned or threw
    mPc,          \* position of one solveMathWithCode run
    mLog,         \* its provider invocations, [stage, model, outcome] each
    mUseSearch,   \* useSearch
    mSources,     \* sources
    mFirstPass,   \* firstPassData
    mModel,       \* res.model
    mResult,      \* what the run returned or threw
    chatSession,  \* the chat slot: a session, or None.session for null
    chatModelUsed,
    examSession,  \* the exam slot
    examModelUsed,
    sessCreated,  \* how many sessions ai.chats.create has made; they are 1..sessCreated
    sessDelivered, \* the sendMessage invocations, [call, op, slot, session] each
    sessPending,  \* the start and send calls awaiting their sendMessage
    sessFinished, \* what the finished start and send calls returned or threw
    onePc,        \* the one-call function that is running, "idle" or "done"
    oneResult,    \* what the one-call function returned or threw
    isStarted,    \* ExamPrep: the state of the component
    strictMode,   \* config.strictMode
    loading,
    isAuditing,
    messages,     \* the transcript
    examPending,  \* the handlers of ExamPrep awaiting a service call
    examAudits    \* the calls of auditExamGrading: historyText, invocations made, ending

parseVars == <<parseIn, parseOut>>
callVars == <<callPc, callPrimary, callFallback, callInvoked, callSettled, callResult>>
hwVars == <<hwPc, hwLog, hwContext, hwModel, hwProblems, hwToRefine, hwOriginal,
            hwRefined, hwResult>>
mVars == <<mPc, mLog, mUseSearch, mSources, mFirstPass, mModel, mResult>>
sessVars == <<chatSession, chatModelUsed, examSession, examModelUsed, sessCreated,
              sessDelivered, sessPending, sessFinished>>
oneVars == <<onePc, oneResult>>
examVars == <<isStarted, strictMode, loading, isAuditing, messages, examPending, examAudits>>
vars == <<parseIn, parseOut, callPc, callPrimary, callFallback, callInvoked,
          callSettled, callResult, hwPc, hwLog, hwContext, hwModel, hwProblems,
          hwToRefine, hwOriginal, hwRefined, hwResult, mPc, mLog, mUseSearch, mSources, mFirstPass, mModel, mResult,
          chatSession, chatModelUsed, examSession, examModelUsed, sessCreated,
          sessDelivered, sessPending, sessFinished,
          onePc, oneResult,
          isStarted, strictMode, loading, isAuditing, messages, examPending, examAudits>>

(***************************************************************************)
(* JavaScript values.                                                      *)
(***************************************************************************)
Undef == [t |-> "undef"]
Null == [t |-> "null"]
Bool(b) == [t |-> "bool", v |-> b]
Num(n) == [t |-> "num", v |-> n]
Str(s) == [t |-> "str", v |-> s]
Arr(es) == [t |-> "arr", v |-> es]
\* an object is the sequence of its own enumerable members, in insertion order
Obj(ms) == [t |-> "obj", v |-> ms]
Member(k, x) == [k |-> k, x |-> x]
EmptyObj == Obj(<<>>)

Chars ==
    [ whitespace |-> {" ", "\n"},
      digits |-> {"0", "1", "2", "3", "4", "5", "6", "7", "8", "9"} ]

DigitVal(c) ==
    CASE c = "0" -> 0 [] c = "1" -> 1 [] c = "2" -> 2 [] c = "3" -> 3
      [] c = "4" -> 4 [] c = "5" -> 5 [] c = "6" -> 6 [] c = "7" -> 7
      [] c = "8" -> 8 [] c = "9" -> 9

\* the character at position i, or a mark that is no character
At(s, i) == IF i >= 1 /\ i <= Len(s) THEN s[i] ELSE "EOF"

(***************************************************************************)
(* String methods used by the code.                                        *)
(***************************************************************************)
\* text.indexOf(c): the first position of c, 0 when there is none
IndexOf(s, c) ==
    IF \E i \in 1..Len(s) : s[i] = c
    THEN CHOOSE i \in 1..Len(s) : s[i] = c /\ \A j \in 1..(i - 1) : s[j] # c
    ELSE 0

\* text.lastIndexOf(c): the last position of c, 0 when there is none
LastIndexOf(s, c) ==
    IF \E i \in 1..Len(s) : s[i] = c
    THEN CHOOSE i \in 1..Len(s) : s[i] = c /\ \A j \in (i + 1)..Len(s) : s[j] # c
    ELSE 0

\* text.substring(a, b) with 0-based a, b: clamps to the text, swaps when a > b
Substring(s, a, b) ==
    LET ca == IF a < 0 THEN 0 ELSE IF a > Len(s) THEN Len(s) ELSE a
        cb == IF b < 0 THEN 0 ELSE IF b > Len(s) THEN Len(s) ELSE b
        lo == IF ca <= cb THEN ca ELSE cb
        hi == IF ca <= cb THEN cb ELSE ca
    IN  SubSeq(s, lo + 1, hi)

\* msg.includes(sub)
Includes(s, sub) ==
    \E i \in 0..(Len(s) - Len(sub)) : SubSeq(s, i + 1, i + Len(sub)) = sub

StartsWith(s, pre) == Len(s) >= Len(pre) /\ SubSeq(s, 1, Len(pre)) = pre

EndsWith(s, suf) ==
    Len(s) >= Len(suf) /\ SubSeq(s, Len(s) - Len(suf) + 1, Len(s)) = suf

\* text.trim()
Trim(s) ==
    IF \A i \in 1..Len(s) : s[i] \in Chars.whitespace
    THEN <<>>
    ELSE LET a == CHOOSE i \in 1..Len(s) :
                      s[i] \notin Chars.whitespace /\ \A j \in 1..(i - 1) : s[j] \in Chars.whitespace
             b == CHOOSE i \in 1..Len(s) :
                      s[i] \notin Chars.whitespace /\ \A j \in (i + 1)..Len(s) : s[j] \in Chars.whitespace
         IN  SubSeq(s, a, b)

\* the backquote character (the lexer accepts none inside a string literal)
Fence ==
    [ backquote |-> "bq", mark |-> <<"bq", "bq", "bq">>, tag |-> <<"j", "s", "o", "n">> ]

\* the first replace without the optional json tag
StripOpeningFence_noTag(s) ==
    IF ~StartsWith(s, Fence.mark) THEN s
    ELSE LET a == SubSeq(s, 4, Len(s))
         IN  IF At(a, 1) = "\n" THEN SubSeq(a, 2, Len(a)) ELSE a

\* the first replace: an opening fence, an optional json tag, an optional newline
StripOpeningFence(s) ==
    IF ~StartsWith(s, Fence.mark) THEN s
    ELSE LET a == SubSeq(s, 4, Len(s))
             b == IF StartsWith(a, Fence.tag) THEN SubSeq(a, 5, Len(a)) ELSE a
         IN  IF At(b, 1) = "\n" THEN SubSeq(b, 2, Len(b)) ELSE b

\* the second replace: an optional newline and a fence ending the text
StripClosingFence(s) ==
    IF ~EndsWith(s, Fence.mark) THEN s
    ELSE LET a == SubSeq(s, 1, Len(s) - 3)
         IN  IF Len(a) > 0 /\ a[Len(a)] = "\n" THEN SubSeq(a, 1, Len(a) - 1) ELSE a

(***************************************************************************)
(* JSON.parse.  A parse step yields [ok, pos, val]: whether a value was    *)
(* read, the position after it, and the value.  ok = FALSE is the          *)
(* SyntaxError JSON.parse throws.                                          *)
(***************************************************************************)
ParseFail == [ok |-> FALSE, pos |-> 0, val |-> Undef]
ParseOk(p, x) == [ok |-> TRUE, pos |-> p, val |-> x]

RECURSIVE SkipWS(_, _)
SkipWS(s, i) == IF At(s, i) \in Chars.whitespace THEN SkipWS(s, i + 1) ELSE i

\* the position after the run of digits that starts at i
RECURSIVE DigitsEnd(_, _)
DigitsEnd(s, i) == IF At(s, i) \in Chars.digits THEN DigitsEnd(s, i + 1) ELSE i

\* the decimal value of the digits s[i..j-1]
RECURSIVE DecimalValue(_, _, _, _)
DecimalValue(s, i, j, acc) ==
    IF i >= j THEN acc ELSE DecimalValue(s, i + 1, j, 10 * acc + DigitVal(s[i]))

RECURSIVE Pow10(_)
Pow10(n) == IF n <= 0 THEN 1 ELSE 10 * Pow10(n - 1)

\* a number: 0 or a digit run without a leading zero, then an optional exponent
ParseNumber(s, i) ==
    LET j == IF s[i] = "0" THEN i + 1 ELSE DigitsEnd(s, i)
        m == DecimalValue(s, i, j, 0)
    IN  IF At(s, j) \in {"e", "E"}
        THEN LET k == DigitsEnd(s, j + 1)
             IN  IF k = j + 1 THEN ParseFail
                 ELSE ParseOk(k, Num(m * Pow10(DecimalValue(s, j + 1, k, 0))))
        ELSE ParseOk(j, Num(m))

\* the position of the quote that closes the string opened before i, 0 when a
\* line break or the end of the text comes first
RECURSIVE StringEnd(_, _)
StringEnd(s, i) ==
    IF i > Len(s) \/ s[i] = "\n" THEN 0
    ELSE IF s[i] = "\"" THEN i
    ELSE StringEnd(s, i + 1)

\* a string literal whose opening quote is at i
ParseString(s, i) ==
    LET j == StringEnd(s, i + 1)
    IN  IF j = 0 THEN ParseFail ELSE ParseOk(j + 1, Str(SubSeq(s, i + 1, j - 1)))

\* one of the literals true, false, null at i
ParseLiteral(s, i, word, x) ==
    IF i + Len(word) - 1 <= Len(s) /\ SubSeq(s, i, i + Len(word) - 1) = word
    THEN ParseOk(i + Len(word), x)
    ELSE ParseFail

\* obj[k] = x on the member sequence ms: a repeated key keeps its first place
SetMember(ms, k, x) ==
    IF \E i \in 1..Len(ms) : ms[i].k = k
    THEN [i \in 1..Len(ms) |-> IF ms[i].k = k THEN Member(k, x) ELSE ms[i]]
    ELSE Append(ms, Member(k, x))

RECURSIVE ParseValue(_, _), ParseMembers(_, _, _), ParseElements(_, _, _)

\* the value that starts at or after i, leading whitespace skipped
ParseValue(s, i) ==
    LET j == SkipWS(s, i)
        c == At(s, j)
    IN  CASE c = "{" ->
                LET k == SkipWS(s, j + 1)
                IN  IF At(s, k) = "}" THEN ParseOk(k + 1, EmptyObj)
                    ELSE ParseMembers(s, k, <<>>)
          [] c = "[" ->
                LET k == SkipWS(s, j + 1)
                IN  IF At(s, k) = "]" THEN ParseOk(k + 1, Arr(<<>>))
                    ELSE ParseElements(s, k, <<>>)
          [] c = "\"" -> ParseString(s, j)
          [] c \in Chars.digits -> ParseNumber(s, j)
          [] c = "t" -> ParseLiteral(s, j, <<"t", "r", "u", "e">>, Bool(TRUE))
          [] c = "f" -> ParseLiteral(s, j, <<"f", "a", "l", "s", "e">>, Bool(FALSE))
          [] c = "n" -> ParseLiteral(s, j, <<"n", "u", "l", "l">>, Null)
          [] OTHER -> ParseFail

\* the members of an object from the key at i on, up to the closing brace
ParseMembers(s, i, acc) ==
    IF At(s, i) # "\"" THEN ParseFail
    ELSE LET key == ParseString(s, i)
         IN  IF ~key.ok THEN ParseFail
             ELSE LET c == SkipWS(s, key.pos)
                  IN  IF At(s, c) # ":" THEN ParseFail
                      ELSE LET x == ParseValue(s, c + 1)
                           IN  IF ~x.ok THEN ParseFail
                               ELSE LET e == SkipWS(s, x.pos)
                                        ms == SetMember(acc, key.val.v, x.val)
                                    IN  IF At(s, e) = "}" THEN ParseOk(e + 1, Obj(ms))
                                        ELSE IF At(s, e) = ","
                                        THEN ParseMembers(s, SkipWS(s, e + 1), ms)
                                        ELSE ParseFail

\* the elements of an array from position i on, up to the closing bracket
ParseElements(s, i, acc) ==
    LET x == ParseValue(s, i)
    IN  IF ~x.ok THEN ParseFail
        ELSE LET e == SkipWS(s, x.pos)
                 es == Append(acc, x.val)
             IN  IF At(s, e) = "]" THEN ParseOk(e + 1, Arr(es))
                 ELSE IF At(s, e) = "," THEN ParseElements(s, e + 1, es)
                 ELSE ParseFail

\* JSON.parse(text): one value, whitespace around it, nothing else
JSONParse(s) ==
    LET x == ParseValue(s, 1)
    IN  IF x.ok /\ SkipWS(s, x.pos) = Len(s) + 1 THEN x ELSE ParseFail

(***************************************************************************)
(* cleanAndParseJSON.                                                      *)
(***************************************************************************)
\* lines 31-36 with indexOf in the place of lastIndexOf
BraceCandidate_firstClose(text) ==
    LET firstOpen == IndexOf(text, "{")
        lastClose == IndexOf(text, "}")
    IN  IF firstOpen # 0 /\ lastClose # 0
        THEN [some |-> TRUE, text |-> Substring(text, firstOpen - 1, lastClose)]
        ELSE [some |-> FALSE, text |-> <<>>]

\* the first-brace-to-last-brace candidate of lines 31-36, [some, text]
BraceCandidate(text) ==
    LET firstOpen == IndexOf(text, "{")
        lastClose == LastIndexOf(text, "}")
    IN  IF firstOpen # 0 /\ lastClose # 0
        THEN [some |-> TRUE, text |-> Substring(text, firstOpen - 1, lastClose)]
        ELSE [some |-> FALSE, text |-> <<>>]

\* lines 44-51: the trimmed text with its fences removed
LooseClean(text) ==
    LET cleaned == Trim(text)
    IN  IF StartsWith(cleaned, Fence.mark)
        THEN StripClosingFence(StripOpeningFence(cleaned))
        ELSE cleaned

\* lines 53-58 without the try/catch
LooseParse_uncaught(text) ==
    LET x == JSONParse(LooseClean(text))
    IN  IF x.ok THEN [threw |-> FALSE, val |-> x.val]
        ELSE [threw |-> TRUE, val |-> Undef]

\* lines 53-58: the last parse, its SyntaxError caught
LooseParse(text) ==
    LET x == JSONParse(LooseClean(text))
    IN  IF x.ok THEN [threw |-> FALSE, val |-> x.val]
        ELSE [threw |-> FALSE, val |-> EmptyObj]

\* cleanAndParseJSON(arg), arg undefined or a string: [threw, val]
cleanAndParseJSON(arg) ==
    IF arg.t = "undef" \/ arg.v = <<>> THEN [threw |-> FALSE, val |-> EmptyObj]
    ELSE LET cand == BraceCandidate(arg.v)
             first == IF cand.some THEN JSONParse(cand.text) ELSE ParseFail
         IN  IF first.ok THEN [threw |-> FALSE, val |-> first.val]
             ELSE LooseParse(arg.v)

(***************************************************************************)
(* callAI.  An error is [id, status, message, detail]: id tells the error  *)
(* objects apart (the invocation that threw it, or "new" for the Error     *)
(* attemptCall creates), status is 0 when the error carries none, detail   *)
(* is the text of its other enumerable fields.                             *)
(***************************************************************************)
MODEL_SMART == "gemini-3-pro-preview"
MODEL_FAST == "gemini-2.5-flash"
MODEL_IMAGE_SMART == "gemini-3-pro-image-preview"
MODEL_IMAGE_FAST == "gemini-2.5-flash-image"

\* what stands for nothing
None ==
    [ \* fallbackModel = null
      model |-> "null",
      \* lines 14 and 16: the null a slot starts with
      session |-> 0,
      \* no error was thrown
      error |-> [id |-> "none", status |-> 0, message |-> <<>>, detail |-> <<>>],
      \* no text was given to cleanAndParseJSON, and it has not run
      input |-> [kind |-> "none"],
      run |-> [threw |-> FALSE, val |-> Undef],
      \* the function has not settled
      result |-> [kind |-> "none"],
      \* the context before line 184 has run
      context |-> [subject |-> Undef, topic |-> Undef, has_student_solution |-> Undef,
                   grading_rules |-> Undef] ]

QuotaExceededMsg == <<"Q", "U", "O", "T", "A", "_", "E", "X", "C", "E", "E", "D", "E", "D">>
QuotaError == [id |-> "new", status |-> 0, message |-> QuotaExceededMsg, detail |-> <<>>]

\* the digits of a status as JSON.stringify writes them
StatusText(st) ==
    CASE st = 429 -> <<"4", "2", "9">>
      [] st = 500 -> <<"5", "0", "0">>
      [] OTHER -> <<>>

\* line 79: error?.message || JSON.stringify(error); JSON.stringify gives the
\* enumerable fields, the message not among them
ErrorMsg(e) ==
    IF e.message # <<>> THEN e.message
    ELSE <<"{">> \o StatusText(e.status) \o e.detail \o <<"}">>

\* line 80 without its test of the status
isQuota_messageOnly(e) ==
    \/ Includes(ErrorMsg(e), <<"4", "2", "9">>)
    \/ Includes(ErrorMsg(e), <<"q", "u", "o", "t", "a">>)

\* line 80
isQuota(e) ==
    \/ e.status = 429
    \/ Includes(ErrorMsg(e), <<"4", "2", "9">>)
    \/ Includes(ErrorMsg(e), <<"q", "u", "o", "t", "a">>)

\* apiCall settled: a response or a thrown error
Responded(out) == [ok |-> TRUE, output |-> out]
Threw(e) == [ok |-> FALSE, error |-> e]

\* attemptCall with the quota error never put in the place of the error caught
attemptCall_rethrows(model, outcome) ==
    IF outcome.ok THEN [ok |-> TRUE, output |-> outcome.output, model |-> model]
    ELSE [ok |-> FALSE, error |-> outcome.error]

\* attemptCall(model) once apiCall(model) has settled with outcome
attemptCall(model, outcome) ==
    IF outcome.ok THEN [ok |-> TRUE, output |-> outcome.output, model |-> model]
    ELSE IF isQuota(outcome.error) THEN [ok |-> FALSE, error |-> QuotaError]
    ELSE [ok |-> FALSE, error |-> outcome.error]

\* line 92 without its test of fallbackModel
GoesToFallback_unguarded(error, fallbackModel) == error.message = QuotaExceededMsg

\* line 92: whether the catch of callAI goes on to the fallback
GoesToFallback(error, fallbackModel) ==
    error.message = QuotaExceededMsg /\ fallbackModel # None.model

(***************************************************************************)
(* JavaScript semantics the pipelines rely on.                             *)
(***************************************************************************)
\* property names
Key ==
    [subject |-> <<"s", "u", "b", "j", "e", "c", "t">>,
     topic |-> <<"t", "o", "p", "i", "c">>,
     has_student_solution |-> <<"h", "a", "s", "_", "s", "t", "u", "d", "e", "n", "t", "_", "s", "o", "l", "u", "t", "i", "o", "n">>,
     grading_rules |-> <<"g", "r", "a", "d", "i", "n", "g", "_", "r", "u", "l", "e", "s">>,
     problems |-> <<"p", "r", "o", "b", "l", "e", "m", "s">>,
     problem_statement |-> <<"p", "r", "o", "b", "l", "e", "m", "_", "s", "t", "a", "t", "e", "m", "e", "n", "t">>,
     student_answer |-> <<"s", "t", "u", "d", "e", "n", "t", "_", "a", "n", "s", "w", "e", "r">>,
     is_correct |-> <<"i", "s", "_", "c", "o", "r", "r", "e", "c", "t">>,
     error_location |-> <<"e", "r", "r", "o", "r", "_", "l", "o", "c", "a", "t", "i", "o", "n">>,
     complete_solution |-> <<"c", "o", "m", "p", "l", "e", "t", "e", "_", "s", "o", "l", "u", "t", "i", "o", "n">>,
     step_by_step |-> <<"s", "t", "e", "p", "_", "b", "y", "_", "s", "t", "e", "p">>,
     key_concepts |-> <<"k", "e", "y", "_", "c", "o", "n", "c", "e", "p", "t", "s">>,
     visual_aid_prompt |-> <<"v", "i", "s", "u", "a", "l", "_", "a", "i", "d", "_", "p", "r", "o", "m", "p", "t">>,
     validation_check |-> <<"v", "a", "l", "i", "d", "a", "t", "i", "o", "n", "_", "c", "h", "e", "c", "k">>,
     status |-> <<"s", "t", "a", "t", "u", "s">>,
     confidence_score |-> <<"c", "o", "n", "f", "i", "d", "e", "n", "c", "e", "_", "s", "c", "o", "r", "e">>,
     rendering_note |-> <<"r", "e", "n", "d", "e", "r", "i", "n", "g", "_", "n", "o", "t", "e">>,
     validation |-> <<"v", "a", "l", "i", "d", "a", "t", "i", "o", "n">>,
     confidenceScore |-> <<"c", "o", "n", "f", "i", "d", "e", "n", "c", "e", "S", "c", "o", "r", "e">>,
     renderingNote |-> <<"r", "e", "n", "d", "e", "r", "i", "n", "g", "N", "o", "t", "e">>,
     valid |-> <<"v", "a", "l", "i", "d">>,
     corrected_response |-> <<"c", "o", "r", "r", "e", "c", "t", "e", "d", "_", "r", "e", "s", "p", "o", "n", "s", "e">>,
     explanation |-> <<"e", "x", "p", "l", "a", "n", "a", "t", "i", "o", "n">>,
     pythonCode |-> <<"p", "y", "t", "h", "o", "n", "C", "o", "d", "e">>,
     result |-> <<"r", "e", "s", "u", "l", "t">>,
     length |-> <<"l", "e", "n", "g", "t", "h">>,
     analysis |-> <<"a", "n", "a", "l", "y", "s", "i", "s">>,
     transcribed_text |-> <<"t", "r", "a", "n", "s", "c", "r", "i", "b", "e", "d", "_", "t", "e", "x", "t">>,
     ymin |-> <<"y", "m", "i", "n">>,
     xmin |-> <<"x", "m", "i", "n">>,
     ymax |-> <<"y", "m", "a", "x">>,
     xmax |-> <<"x", "m", "a", "x">>,
     fairnessScore |-> <<"f", "a", "i", "r", "n", "e", "s", "s", "S", "c", "o", "r", "e">>,
     fact_checks |-> <<"f", "a", "c", "t", "_", "c", "h", "e", "c", "k", "s">>,
     inlineData |-> <<"i", "n", "l", "i", "n", "e", "D", "a", "t", "a">>,
     data |-> <<"d", "a", "t", "a">>,
     mimeType |-> <<"m", "i", "m", "e", "T", "y", "p", "e">>,
     modelUsed |-> <<"m", "o", "d", "e", "l", "U", "s", "e", "d">>,
     isAccurate |-> <<"i", "s", "A", "c", "c", "u", "r", "a", "t", "e">>]

\* a TypeError raised by the runtime
TypeError == [id |-> "TypeError", status |-> 0, message |-> <<"T", "y", "p", "e">>,
              detail |-> <<>>]

\* whether x is truthy
Truthy(x) ==
    CASE x.t \in {"undef", "null"} -> FALSE
      [] x.t = "bool" -> x.v
      [] x.t = "num" -> x.v # 0
      [] x.t = "str" -> x.v # <<>>
      [] OTHER -> TRUE

\* whether reading a property of x raises no TypeError
Readable(x) == x.t \notin {"undef", "null"}

\* x.k for a readable x (k is none of the built-in properties)
Get(x, k) ==
    IF x.t = "obj" /\ \E i \in 1..Len(x.v) : x.v[i].k = k
    THEN x.v[CHOOSE i \in 1..Len(x.v) : x.v[i].k = k].x
    ELSE Undef

\* x?.k
OptGet(x, k) == IF Readable(x) THEN Get(x, k) ELSE Undef

\* a === b; two objects or arrays read from different places are never identical
StrictEquals(a, b) == a.t = b.t /\ a.t \notin {"arr", "obj"} /\ a = b

\* the decimal text of n >= 0
RECURSIVE IntText(_)
IntText(n) ==
    LET d == CHOOSE c \in Chars.digits : DigitVal(c) = n % 10
    IN  IF n < 10 THEN <<d>> ELSE Append(IntText(n \div 10), d)

\* ToNumber of a string: [nan, v]
StringToNumber(s) ==
    LET w == Trim(s)
        x == JSONParse(w)
    IN  IF w = <<>> THEN [nan |-> FALSE, v |-> 0]
        ELSE IF \A i \in 1..Len(w) : w[i] \in Chars.digits
        THEN [nan |-> FALSE, v |-> DecimalValue(w, 1, Len(w) + 1, 0)]
        ELSE IF x.ok /\ x.val.t = "num" THEN [nan |-> FALSE, v |-> x.val.v]
        ELSE [nan |-> TRUE, v |-> 0]

\* ToNumber(x) as a relational comparison takes it: [nan, v]
RECURSIVE ToNumber(_)
ToNumber(x) ==
    CASE x.t = "num" -> [nan |-> FALSE, v |-> x.v]
      [] x.t = "bool" -> [nan |-> FALSE, v |-> IF x.v THEN 1 ELSE 0]
      [] x.t = "null" -> [nan |-> FALSE, v |-> 0]
      [] x.t = "str" -> StringToNumber(x.v)
      [] x.t = "arr" ->
            IF Len(x.v) = 0 THEN [nan |-> FALSE, v |-> 0]
            ELSE IF Len(x.v) = 1 /\ x.v[1].t \in {"num", "str", "arr", "null"}
            THEN ToNumber(x.v[1])
            ELSE [nan |-> TRUE, v |-> 0]
      [] OTHER -> [nan |-> TRUE, v |-> 0]

\* x < n for a number n
LessThan(x, n) == ~ToNumber(x).nan /\ ToNumber(x).v < n

\* the members {...x} copies
Spread(x) ==
    CASE x.t = "obj" -> x.v
      [] x.t = "arr" -> [i \in 1..Len(x.v) |-> Member(IntText(i - 1), x.v[i])]
      [] x.t = "str" -> [i \in 1..Len(x.v) |-> Member(IntText(i - 1), Str(<<x.v[i]>>))]
      [] OTHER -> <<>>

\* x.length
LengthOf(x) ==
    CASE x.t \in {"arr", "str"} -> Num(Len(x.v))
      [] OTHER -> Get(x, Key.length)

RECURSIVE Join(_, _)
Join(parts, sep) ==
    IF Len(parts) = 0 THEN <<>>
    ELSE IF Len(parts) = 1 THEN parts[1]
    ELSE parts[1] \o sep \o Join(Tail(parts), sep)

\* JSON.stringify(x) for a value read from JSON
RECURSIVE Stringify(_)
Stringify(x) ==
    CASE x.t = "null" -> <<"n", "u", "l", "l">>
      [] x.t = "bool" -> IF x.v THEN <<"t", "r", "u", "e">> ELSE <<"f", "a", "l", "s", "e">>
      [] x.t = "num" -> IntText(x.v)
      [] x.t = "str" -> <<"\"">> \o x.v \o <<"\"">>
      [] x.t = "arr" ->
            <<"[">> \o Join([i \in 1..Len(x.v) |-> Stringify(x.v[i])], <<",">>) \o <<"]">>
      [] x.t = "obj" ->
            <<"{">>
            \o Join([i \in 1..Len(x.v) |->
                        <<"\"">> \o x.v[i].k \o <<"\"", ":">> \o Stringify(x.v[i].x)],
                    <<",">>)
            \o <<"}">>

(***************************************************************************)
(* callAI as one step: what it returns or throws when the primary          *)
(* invocation settles with o1 and the fallback invocation, if one is made, *)
(* with o2.  made lists the invocations made, [model, outcome] each.       *)
(***************************************************************************)
callAI(primaryModel, fallbackModel, o1, o2) ==
    LET first == attemptCall(primaryModel, o1)
        second == attemptCall(fallbackModel, o2)
        p == [model |-> primaryModel, outcome |-> o1]
        f == [model |-> fallbackModel, outcome |-> o2]
    IN  IF first.ok
        THEN [ok |-> TRUE, output |-> first.output, model |-> first.model,
              error |-> None.error, made |-> <<p>>]
        ELSE IF GoesToFallback(first.error, fallbackModel)
        THEN IF second.ok
             THEN [ok |-> TRUE, output |-> second.output, model |-> second.model,
                   error |-> None.error, made |-> <<p, f>>]
             ELSE [ok |-> FALSE, output |-> Undef, model |-> None.model,
                   error |-> second.error, made |-> <<p, f>>]
        ELSE [ok |-> FALSE, output |-> Undef, model |-> None.model,
              error |-> first.error, made |-> <<p>>]

(***************************************************************************)
(* The sanitizer on its own: an input is drawn, cleanAndParseJSON runs.    *)
(***************************************************************************)
MaxRawLen == 4
MaxProseLen == 2

Alphabet ==
    [ raw |-> {"{", "}", "\"", ":", "1", Fence.backquote},
      prose |-> {"a", " ", "{", "}"} ]

SeqsUpTo(A, n) == UNION {[1..k -> A] : k \in 0..n}

SampleTexts ==
    [ \* texts that are one JSON object
      objects |-> { <<"{", "}">>,
              <<"{", "\"", "a", "\"", ":", "1", "}">>,
              <<"{", " ", "\"", "a", "\"", " ", ":", " ", "{", "\"", "b", "\"", ":", "[", "1", "]", "}", " ", "}">>,
              <<"{", "\"", "a", "\"", ":", "\"", "}", "\"", "}">>,
              <<"{", "\"", "a", "\"", ":", "1", ",", "\"", "a", "\"", ":", "2", "}">> },
      \* texts that are one JSON value of another kind
      others |-> { <<"[", "1", ",", "2", "]">>,
              <<"[", "{", "\"", "a", "\"", ":", "1", "}", "]">>,
              <<"[", "{", "\"", "a", "\"", ":", "1", "}", ",", "{", "\"", "b", "\"", ":", "2", "}", "]">>,
              <<"5">>,
              <<"\"", "s", "\"">>,
              <<"\"", "x", "{", "}", "y", "\"">>,
              <<"n", "u", "l", "l">>,
              <<"t", "r", "u", "e">> },
      \* texts no strategy can read, and texts that read as something unexpected
      odd |-> { <<"n", "u", "l", "l">>,
              <<"}", "1", "{">>,
              <<"t", "r", "u", "e", " ">>,
              <<"o", "o", "p", "s">>,
              <<"{", "\"", "a", "\"", ":", "1", ",", "}">>,
              <<Fence.backquote, Fence.backquote, Fence.backquote, Fence.backquote, Fence.backquote, Fence.backquote>>,
              <<Fence.backquote, Fence.backquote, Fence.backquote, "j", "s", "o", "n">>,
              <<Fence.backquote, Fence.backquote, Fence.backquote, "j", "s", "o", "n", "\n", Fence.backquote, Fence.backquote, Fence.backquote>>,
              <<"1", "e", "2">>,
              <<"0", "1">>,
              <<"\"", "a", "\n", "b", "\"">>,
              <<"{", "\"", "a", "\"", ":", "1", "}", " ", "{", "\"", "b", "\"", ":", "2", "}">>,
              <<"[", "1", ",", "]">>,
              <<"{", "a", ":", "1", "}">> },
      tags |-> { <<>>,
              <<"j", "s", "o", "n">>,
              <<"j", "s">>,
              <<"J", "S", "O", "N">>,
              <<"j", "s", "o", "n", "c">> } ]

InputsOf ==
    [ \* arbitrary text, undefined included
      raw |-> {[kind |-> "raw", text |-> Undef]}
            \cup {[kind |-> "raw", text |-> Str(s)] :
                    s \in SeqsUpTo(Alphabet.raw, MaxRawLen) \cup SampleTexts.odd},
      \* a JSON object with prose before and after it
      span |-> {[kind |-> "span", pre |-> a, core |-> c, post |-> b] :
                a \in SeqsUpTo(Alphabet.prose, MaxProseLen), c \in SampleTexts.objects,
                b \in SeqsUpTo(Alphabet.prose, MaxProseLen)},
      \* a JSON value inside a markdown fence
      fenced |-> {[kind |-> "fenced", tag |-> g, body |-> c, nl |-> n] :
                g \in SampleTexts.tags, c \in SampleTexts.objects \cup SampleTexts.others, n \in BOOLEAN} ]

\* the argument an input stands for
TextOf(in) ==
    CASE in.kind = "raw" -> in.text
      [] in.kind = "span" -> Str(in.pre \o in.core \o in.post)
      [] in.kind = "fenced" ->
            Str(Fence.mark \o in.tag \o <<"\n">> \o in.body
                \o (IF in.nl THEN <<"\n">> ELSE <<>>) \o Fence.mark)

Sanitize ==
    /\ parseIn # None.input
    /\ parseOut = None.run
    /\ parseOut' = cleanAndParseJSON(TextOf(parseIn))
    /\ UNCHANGED <<parseIn, callVars, hwVars, mVars, sessVars, oneVars, examVars>>

(***************************************************************************)
(* One call of callAI, step by step: the call begins, the primary          *)
(* invocation settles, the fallback invocation (if made) settles.          *)
(***************************************************************************)
\* what the provider may do with invocation n of a call
Outcomes(n) ==
    LET ErrorParts ==
            [ statuses |-> {0, 429, 500},
              messages |-> { <<>>,
                      <<"n", "e", "t">>,
                      <<"H", "T", "T", "P", " ", "4", "2", "9", " ", "t", "o", "o", " ", "m", "a", "n", "y">>,
                      <<"q", "u", "o", "t", "a", " ", "e", "x", "c", "e", "e", "d", "e", "d">>,
                      <<"Q", "u", "o", "t", "a">>,
                      <<"Q", "U", "O", "T", "A">>,
                      <<"Q", "U", "O", "T", "A", "_", "E", "X", "C", "E", "E", "D", "E", "D">> },
              details |-> { <<>>, <<"q", "u", "o", "t", "a">> } ]
    IN  {Responded(o) : o \in {"out1", "out2"}}
        \cup {Threw([id |-> n, status |-> st, message |-> m, detail |-> d]) :
                st \in ErrorParts.statuses, m \in ErrorParts.messages,
                d \in ErrorParts.details}

Returned(r) == [kind |-> "return", output |-> r.output, model |-> r.model]
\* a rejection that carries a TypeError whatever was thrown
Thrown_generic(e) == [kind |-> "throw", error |-> TypeError]
\* the rejection of a promise with e
Thrown(e) == [kind |-> "throw", error |-> e]

\* callAI(operationName, apiCall, primaryModel, fallbackModel) up to line 90
CallBegin ==
    /\ callPc = "idle"
    \* the (primaryModel, fallbackModel) arguments of the call sites
    /\ \E pair \in { <<MODEL_FAST, None.model>>, <<MODEL_SMART, MODEL_FAST>>,
                      <<MODEL_SMART, None.model>>, <<MODEL_IMAGE_SMART, MODEL_IMAGE_FAST>> } :
        /\ callPrimary' = pair[1]
        /\ callFallback' = pair[2]
        /\ callInvoked' = <<pair[1]>>
    /\ callPc' = "primary"
    /\ UNCHANGED <<callSettled, callResult, parseVars, hwVars, mVars, sessVars, oneVars, examVars>>

\* lines 90-97: attemptCall(primaryModel) settles
PrimarySettles ==
    /\ callPc = "primary"
    /\ \E o \in Outcomes("first") :
        LET r == attemptCall(callPrimary, o)
        IN  /\ callSettled' = Append(callSettled, o)
            /\ IF r.ok
               THEN /\ callResult' = Returned(r)
                    /\ callPc' = "done"
                    /\ UNCHANGED callInvoked
               ELSE IF GoesToFallback(r.error, callFallback)
               THEN /\ callInvoked' = Append(callInvoked, callFallback)
                    /\ callPc' = "fallback"
                    /\ UNCHANGED callResult
               ELSE /\ callResult' = Thrown(r.error)
                    /\ callPc' = "done"
                    /\ UNCHANGED callInvoked
    /\ UNCHANGED <<callPrimary, callFallback, parseVars, hwVars, mVars, sessVars, oneVars, examVars>>

\* line 94: attemptCall(fallbackModel) settles
FallbackSettles ==
    /\ callPc = "fallback"
    /\ \E o \in Outcomes("second") :
        LET r == attemptCall(callFallback, o)
        IN  /\ callSettled' = Append(callSettled, o)
            /\ callResult' = IF r.ok THEN Returned(r) ELSE Thrown(r.error)
    /\ callPc' = "done"
    /\ UNCHANGED <<callPrimary, callFallback, callInvoked, parseVars, hwVars, mVars, sessVars, oneVars, examVars>>

InitParse ==
    /\ parseIn \in InputsOf.raw \cup InputsOf.span \cup InputsOf.fenced
    /\ parseOut = None.run
    /\ callPc = "idle"
    /\ callPrimary = None.model
    /\ callFallback = None.model
    /\ callInvoked = <<>>
    /\ callSettled = <<>>
    /\ callResult = None.result
    /\ hwPc = "idle"
    /\ hwLog = <<>>
    /\ hwContext = None.context
    /\ hwModel = None.model
    /\ hwProblems = <<>>
    /\ hwToRefine = <<>>
    /\ hwOriginal = <<>>
    /\ hwRefined = Undef
    /\ hwResult = None.result
    /\ mPc = "idle"
    /\ mLog = <<>>
    /\ mUseSearch = FALSE
    /\ mSources = <<>>
    /\ mFirstPass = Undef
    /\ mModel = None.model
    /\ mResult = None.result
    /\ chatSession = None.session
    /\ chatModelUsed = MODEL_FAST
    /\ examSession = None.session
    /\ examModelUsed = MODEL_FAST
    /\ sessCreated = 0
    /\ sessDelivered = <<>>
    /\ sessPending = {}
    /\ sessFinished = <<>>
    /\ onePc = "idle"
    /\ oneResult = None.result
    /\ isStarted = FALSE
    /\ strictMode = FALSE
    /\ loading = FALSE
    /\ isAuditing = FALSE
    /\ messages = <<>>
    /\ examPending = {}
    /\ examAudits = <<>>

NextParse == Sanitize

SpecParse == InitParse /\ [][NextParse]_vars

InitCall ==
    /\ parseIn = None.input
    /\ parseOut = None.run
    /\ callPc = "idle"
    /\ callPrimary = None.model
    /\ callFallback = None.model
    /\ callInvoked = <<>>
    /\ callSettled = <<>>
    /\ callResult = None.result
    /\ hwPc = "idle"
    /\ hwLog = <<>>
    /\ hwContext = None.context
    /\ hwModel = None.model
    /\ hwProblems = <<>>
    /\ hwToRefine = <<>>
    /\ hwOriginal = <<>>
    /\ hwRefined = Undef
    /\ hwResult = None.result
    /\ mPc = "idle"
    /\ mLog = <<>>
    /\ mUseSearch = FALSE
    /\ mSources = <<>>
    /\ mFirstPass = Undef
    /\ mModel = None.model
    /\ mResult = None.result
    /\ chatSession = None.session
    /\ chatModelUsed = MODEL_FAST
    /\ examSession = None.session
    /\ examModelUsed = MODEL_FAST
    /\ sessCreated = 0
    /\ sessDelivered = <<>>
    /\ sessPending = {}
    /\ sessFinished = <<>>
    /\ onePc = "idle"
    /\ oneResult = None.result
    /\ isStarted = FALSE
    /\ strictMode = FALSE
    /\ loading = FALSE
    /\ isAuditing = FALSE
    /\ messages = <<>>
    /\ examPending = {}
    /\ examAudits = <<>>

NextCall == CallBegin \/ PrimarySettles \/ FallbackSettles

SpecCall == InitCall /\ [][NextCall]_vars

(***************************************************************************)
(* analyzeHomework.                                                        *)
(***************************************************************************)
\* line 225: the confidence below which a problem is refined
RefineThreshold == 80
\* line 271: the confidence written on a corrected problem
CorrectedConfidence == 99

\* line 184: the destructuring of contextData
Destructure(contextData) ==
    [subject |-> Get(contextData, Key.subject),
     topic |-> Get(contextData, Key.topic),
     has_student_solution |-> Get(contextData, Key.has_student_solution),
     grading_rules |-> Get(contextData, Key.grading_rules)]

\* line 192: grading_rules.join is called on a truthy value that has no join
PromptThrows(context) ==
    Truthy(context.grading_rules) /\ context.grading_rules.t # "arr"

\* lines 217-220, [threw, problems]: rawResponse.problems, defaulted to []
ProblemsOf(rawResponse) ==
    IF ~Readable(rawResponse) THEN [threw |-> TRUE, problems |-> Undef]
    ELSE IF Truthy(Get(rawResponse, Key.problems))
    THEN [threw |-> FALSE, problems |-> Get(rawResponse, Key.problems)]
    ELSE IF rawResponse.t \in {"num", "str", "bool"}
    THEN [threw |-> TRUE, problems |-> Undef]
    ELSE [threw |-> FALSE, problems |-> Arr(<<>>)]

NeedsRefinement_inclusive(p) ==
    LET check == Get(p, Key.validation_check)
        score == OptGet(check, Key.confidence_score)
    IN  \/ StrictEquals(OptGet(check, Key.status), Str(<<"w", "a", "r", "n", "i", "n", "g">>))
        \/ LessThan(IF Truthy(score) THEN score ELSE Num(0), RefineThreshold + 1)

\* line 225: the predicate of the filter, for a readable p
NeedsRefinement(p) ==
    LET check == Get(p, Key.validation_check)
        score == OptGet(check, Key.confidence_score)
    IN  \/ StrictEquals(OptGet(check, Key.status), Str(<<"w", "a", "r", "n", "i", "n", "g">>))
        \/ LessThan(IF Truthy(score) THEN score ELSE Num(0), RefineThreshold)

\* lines 224-226, [threw, selected]: problems.filter(...)
FilterToRefine(problems) ==
    IF problems.t # "arr" \/ \E i \in 1..Len(problems.v) : ~Readable(problems.v[i])
    THEN [threw |-> TRUE, selected |-> <<>>]
    ELSE [threw |-> FALSE, selected |-> SelectSeq(problems.v, NeedsRefinement)]

FindIndex_last(problems, fixedP) ==
    LET Matches(p) ==
            \/ StrictEquals(Get(p, Key.problem_statement), Get(fixedP, Key.problem_statement))
            \/ StrictEquals(Get(p, Key.student_answer), Get(fixedP, Key.student_answer))
    IN  IF \E i \in 1..Len(problems) : Matches(problems[i])
        THEN CHOOSE i \in 1..Len(problems) :
                Matches(problems[i]) /\ \A j \in (i + 1)..Len(problems) : ~Matches(problems[j])
        ELSE 0

\* lines 263-266: findIndex, 0 when no problem matches
FindIndex(problems, fixedP) ==
    LET Matches(p) ==
            \/ StrictEquals(Get(p, Key.problem_statement), Get(fixedP, Key.problem_statement))
            \/ StrictEquals(Get(p, Key.student_answer), Get(fixedP, Key.student_answer))
    IN  IF \E i \in 1..Len(problems) : Matches(problems[i])
        THEN CHOOSE i \in 1..Len(problems) :
                Matches(problems[i]) /\ \A j \in 1..(i - 1) : ~Matches(problems[j])
        ELSE 0

\* lines 269-272: { ...fixedP, validation: {...} }
Corrected(fixedP) ==
    LET validation ==
            Obj(<<Member(Key.status, Str(<<"v", "e", "r", "i", "f", "i", "e", "d">>)),
                  Member(Key.confidenceScore, Num(CorrectedConfidence)),
                  Member(Key.renderingNote,
                         Str(<<"A", "I", " ", "S", "e", "l", "f", "-", "C", "o", "r", "r", "e", "c", "t", "e", "d">>))>>)
    IN  Obj(SetMember(Spread(fixedP), Key.validation, validation))

RECURSIVE MergeFrom_appends(_, _, _)
MergeFrom_appends(problems, fixes, i) ==
    IF i > Len(fixes) \/ Len(problems) = 0 THEN problems
    ELSE IF ~Readable(fixes[i]) THEN problems
    ELSE LET index == FindIndex(problems, fixes[i])
         IN  MergeFrom_appends(IF index # 0
                               THEN [problems EXCEPT ![index] = Corrected(fixes[i])]
                               ELSE Append(problems, Corrected(fixes[i])),
                               fixes, i + 1)

\* lines 261-274: the forEach from element i on; a TypeError ends it where it is
RECURSIVE MergeFrom(_, _, _)
MergeFrom(problems, fixes, i) ==
    IF i > Len(fixes) \/ Len(problems) = 0 THEN problems
    ELSE IF ~Readable(fixes[i]) THEN problems
    ELSE LET index == FindIndex(problems, fixes[i])
         IN  MergeFrom(IF index # 0
                       THEN [problems EXCEPT ![index] = Corrected(fixes[i])]
                       ELSE problems,
                       fixes, i + 1)

\* lines 257-275 inside the try: the problems after the merge of refinedData
MergeRefined(problems, refinedData) ==
    IF ~Readable(refinedData) THEN problems
    ELSE LET fixes == Get(refinedData, Key.problems)
         IN  IF Truthy(fixes) /\ ~ToNumber(LengthOf(fixes)).nan
                /\ ToNumber(LengthOf(fixes)).v > 0 /\ fixes.t = "arr"
             THEN MergeFrom(problems, fixes.v, 1)
             ELSE problems

\* lines 291-295
ValidationOf(p) ==
    LET check == Get(p, Key.validation_check)
    IN  IF Truthy(check)
        THEN Obj(<<Member(Key.status, Get(check, Key.status)),
                   Member(Key.confidenceScore, Get(check, Key.confidence_score)),
                   Member(Key.renderingNote, Get(check, Key.rendering_note))>>)
        ELSE IF Truthy(Get(p, Key.validation)) THEN Get(p, Key.validation)
        ELSE Undef

\* lines 281-297: the HomeworkResponse
HomeworkResponse(context, model, problems) ==
    [hasStudentSolution |-> context.has_student_solution,
     modelUsed |-> model,
     problems |->
        [i \in 1..Len(problems) |->
            [id |-> i,
             subject |-> context.subject,
             topic |-> context.topic,
             isCorrect |-> Get(problems[i], Key.is_correct),
             boundingBox |-> Get(problems[i], Key.error_location),
             explanation |-> Get(problems[i], Key.complete_solution),
             steps |-> Get(problems[i], Key.step_by_step),
             problemStatement |-> Get(problems[i], Key.problem_statement),
             keyConcepts |-> Get(problems[i], Key.key_concepts),
             studentAnswer |-> Get(problems[i], Key.student_answer),
             visualAidPrompt |-> Get(problems[i], Key.visual_aid_prompt),
             validation |-> ValidationOf(problems[i])]]]

\* a provider response: its text and its grounding chunks that carry a web source
Response(text, chunks) == [text |-> text, chunks |-> chunks]

\* errors the provider raises in a pipeline: rate limiting, a transport failure
PipelineErrors(n) ==
    { [id |-> n, status |-> 429, message |-> <<>>, detail |-> <<>>],
      [id |-> n, status |-> 0, message |-> <<"n", "e", "t">>, detail |-> <<>>] }

StageOutcomes(texts, n) ==
    {Responded(Response(t, <<>>)) : t \in texts} \cup {Threw(e) : e \in PipelineErrors(n)}

\* what the fallback invocation may do when the primary settled with o1; o1
\* stands in for it when no fallback invocation is made
FallbackOutcomes(primaryModel, fallbackModel, o1, texts) ==
    IF Len(callAI(primaryModel, fallbackModel, o1, o1).made) = 2
    THEN StageOutcomes(texts, "second")
    ELSE {o1}

\* the value cleanAndParseJSON returns for the text of a successful call; no
\* stage parses after a failed one
Parsed(r) == IF r.ok THEN cleanAndParseJSON(r.output.text).val ELSE Undef

\* the log entries of one callAI
Logged(stage, r) ==
    [i \in 1..Len(r.made) |->
        [stage |-> stage, model |-> r.made[i].model, outcome |-> r.made[i].outcome]]

\* sample replies of the provider: JSON values and the texts that carry them
Status ==
    [ warning |-> Str(<<"w", "a", "r", "n", "i", "n", "g">>),
      verified |-> Str(<<"v", "e", "r", "i", "f", "i", "e", "d">>) ]

ProblemRecord(statement, answer, status, score) ==
    Obj(<<Member(Key.problem_statement, Str(statement)),
          Member(Key.student_answer, answer),
          Member(Key.complete_solution, Str(<<"s">>)),
          Member(Key.validation_check,
                 Obj(<<Member(Key.status, status), Member(Key.confidence_score, Num(score))>>))>>)

\* lines 124-128: a record with an error_location of four numbers
Boxed(record, ymin, xmin, ymax, xmax) ==
    Obj(record.v \o
        <<Member(Key.error_location,
                 Obj(<<Member(Key.ymin, Num(ymin)), Member(Key.xmin, Num(xmin)),
                       Member(Key.ymax, Num(ymax)), Member(Key.xmax, Num(xmax))>>))>>)

GoodTuning ==
    Obj(<<Member(Key.subject, Str(<<"M">>)), Member(Key.topic, Str(<<"T">>)),
          Member(Key.has_student_solution, Bool(TRUE)),
          Member(Key.grading_rules, Arr(<<Str(<<"r">>)>>))>>)

JsonText(x) == Str(Stringify(x))
FencedText(x) == Str(Fence.mark \o Fence.tag \o <<"\n">> \o Stringify(x) \o <<"\n">> \o Fence.mark)
Garbled == Str(<<"o", "o", "p", "s">>)

Problem ==
    [A60   |-> ProblemRecord(<<"A">>, Str(<<"1">>), Status.verified, 60),
     AWarn |-> ProblemRecord(<<"A">>, Str(<<"1">>), Status.warning, 90),
     B95   |-> ProblemRecord(<<"B">>, Str(<<"2">>), Status.verified, 95),
     C80   |-> ProblemRecord(<<"C">>, Null, Status.verified, 80),
     \* a record that carries no answer and no validation data
     Bare  |-> Obj(<<Member(Key.problem_statement, Str(<<"D">>))>>),
     \* records with a box on the 0-1000 scale and with one beyond it
     OnScale  |-> Boxed(ProblemRecord(<<"A">>, Str(<<"1">>), Status.verified, 60),
                        10, 20, 30, 40),
     OffScale |-> Boxed(ProblemRecord(<<"B">>, Str(<<"2">>), Status.verified, 95),
                        10, 20, 30, 1200)]

MaxProblems == 2
MaxFixes == 1

\* corrected records: of A; of A with the answer of B; of no record; of A
\* without answer and validation data; of B
Fix ==
    [A         |-> ProblemRecord(<<"A">>, Str(<<"1">>), Status.verified, 97),
     AnswerOfB |-> ProblemRecord(<<"A">>, Str(<<"2">>), Status.warning, 70),
     Z         |-> ProblemRecord(<<"Z">>, Str(<<"9">>), Status.verified, 97),
     Bare      |-> Obj(<<Member(Key.problem_statement, Str(<<"A">>)),
                         Member(Key.complete_solution, Str(<<"t">>))>>),
     B         |-> ProblemRecord(<<"B">>, Str(<<"2">>), Status.verified, 97),
     \* of A, with a box whose xmin exceeds its xmax
     Inverted  |-> Boxed(ProblemRecord(<<"A">>, Str(<<"1">>), Status.verified, 97),
                         10, 40, 30, 20)]

ProblemsReply(ps) == Obj(<<Member(Key.problems, Arr(ps))>>)

\* the reply texts of the three stages of analyzeHomework, with the record
\* sequences a deep-analysis reply and a refinement reply may carry
HwTexts ==
    LET DeepSequences ==
            SeqsUpTo({Problem.A60, Problem.B95, Problem.C80, Problem.Bare}, MaxProblems)
            \cup { <<Problem.AWarn>>, <<Problem.AWarn, Problem.B95>>,
                   <<Problem.B95, Problem.AWarn>>,
                   <<Problem.B95, Problem.A60, Problem.C80>>,
                   <<Problem.OnScale>>, <<Problem.OffScale>> }
        FixSequences ==
            SeqsUpTo({Fix.A, Fix.AnswerOfB, Fix.Z, Fix.Bare, Fix.B}, MaxFixes)
            \cup { <<Fix.A, Fix.A>>, <<Fix.A, Fix.Z>>, <<Fix.Z, Fix.B>>, <<Fix.A, Null>>,
                   <<Fix.Inverted>> }
    IN
    [ tuning |-> { Undef, Garbled, JsonText(Null), JsonText(EmptyObj), JsonText(GoodTuning),
              FencedText(GoodTuning),
              JsonText(Obj(<<Member(Key.subject, Str(<<"M">>))>>)),
              JsonText(Obj(<<Member(Key.grading_rules, Str(<<"r">>))>>)) },
      deep |-> { Undef, Garbled, JsonText(Null), JsonText(Num(5)), JsonText(EmptyObj),
              FencedText(ProblemsReply(<<Problem.B95, Problem.A60>>)),
              JsonText(ProblemsReply(<<Null>>)),
              JsonText(Obj(<<Member(Key.problems, Str(<<"x">>))>>)) }
            \cup {JsonText(ProblemsReply(ps)) : ps \in DeepSequences},
      refine |-> { Undef, Garbled, JsonText(Null),
              JsonText(Obj(<<Member(Key.problems, Str(<<"x">>))>>)) }
            \cup {JsonText(ProblemsReply(fs)) : fs \in FixSequences} ]

\* analyzeHomework is called (lines 154-181): the tuning call is issued
\* analyzeHomework issuing the deep-analysis call at once
HwStart_skipsTuning ==
    /\ hwPc = "idle"
    /\ mPc = "idle"
    /\ onePc = "idle"
    /\ hwPc' = "deep"
    /\ UNCHANGED <<hwLog, hwContext, hwModel, hwProblems, hwToRefine, hwOriginal,
                   hwRefined, hwResult,
                   mVars, parseVars, callVars, sessVars, oneVars, examVars>>

\* lines 150-172: analyzeHomework is called and issues the tuning call
HwStart ==
    /\ hwPc = "idle"
    /\ mPc = "idle"
    /\ onePc = "idle"
    /\ hwPc' = "tuning"
    /\ UNCHANGED <<hwLog, hwContext, hwModel, hwProblems, hwToRefine, hwOriginal,
                   hwRefined, hwResult,
                   mVars, parseVars, callVars, sessVars, oneVars, examVars>>

\* lines 172-215: the tuning call settles; on success the context is read and
\* the deep-analysis call is issued
HwTuningSettles ==
    /\ hwPc = "tuning"
    /\ \E o \in StageOutcomes(HwTexts.tuning, "first") :
       \E tuningRes \in {callAI(MODEL_FAST, None.model, o, o)} :
            /\ hwLog' = hwLog \o Logged("tuning", tuningRes)
            /\ \E contextData \in {Parsed(tuningRes)} :
               IF ~tuningRes.ok
               THEN /\ hwResult' = Thrown(tuningRes.error)
                    /\ hwPc' = "done"
                    /\ UNCHANGED hwContext
               ELSE IF ~Readable(contextData) \/ PromptThrows(Destructure(contextData))
               THEN /\ hwResult' = Thrown(TypeError)
                    /\ hwPc' = "done"
                    /\ UNCHANGED hwContext
               ELSE /\ hwContext' = Destructure(contextData)
                    /\ hwPc' = "deep"
                    /\ UNCHANGED hwResult
    /\ UNCHANGED <<hwModel, hwProblems, hwToRefine, hwOriginal, hwRefined,
                   mVars, parseVars, callVars, sessVars, oneVars, examVars>>

\* lines 206-256 and 281-297: the deep-analysis call settles; on success the
\* problems are read and selected, and the refinement call is issued when some
\* are selected, the response returned otherwise
HwDeepSettles ==
    /\ hwPc = "deep"
    /\ \E o1 \in StageOutcomes(HwTexts.deep, "first") :
       \E o2 \in FallbackOutcomes(MODEL_SMART, MODEL_FAST, o1, HwTexts.deep) :
       \E analysisRes \in {callAI(MODEL_SMART, MODEL_FAST, o1, o2)} :
            /\ hwLog' = hwLog \o Logged("deep", analysisRes)
            /\ \E read \in {ProblemsOf(Parsed(analysisRes))} :
               \E filtered \in {FilterToRefine(read.problems)} :
               IF ~analysisRes.ok
               THEN /\ hwResult' = Thrown(analysisRes.error)
                    /\ hwPc' = "done"
                    /\ UNCHANGED <<hwModel, hwProblems, hwToRefine, hwOriginal>>
               ELSE IF read.threw \/ filtered.threw
               THEN /\ hwResult' = Thrown(TypeError)
                    /\ hwPc' = "done"
                    /\ hwModel' = analysisRes.model
                    /\ UNCHANGED <<hwProblems, hwToRefine, hwOriginal>>
               ELSE /\ hwModel' = analysisRes.model
                    /\ hwProblems' = read.problems.v
                    /\ hwToRefine' = filtered.selected
                    /\ hwOriginal' = read.problems.v
                    /\ IF Len(filtered.selected) > 0
                       THEN /\ hwPc' = "refine"
                            /\ UNCHANGED hwResult
                       ELSE /\ hwPc' = "done"
                            /\ hwResult' =
                                  [kind |-> "return",
                                   value |-> HomeworkResponse(hwContext, analysisRes.model,
                                                              read.problems.v)]
    /\ UNCHANGED <<hwContext, hwRefined, mVars, parseVars, callVars, sessVars, oneVars, examVars>>

AfterRefinement_discards(problems, refineRes) ==
    IF refineRes.ok THEN MergeRefined(problems, Parsed(refineRes)) ELSE <<>>

\* lines 245-278: the try around the refinement call and the merge; a failed
\* call is caught and leaves the problems as they are
AfterRefinement(problems, refineRes) ==
    IF refineRes.ok THEN MergeRefined(problems, Parsed(refineRes)) ELSE problems

\* lines 245-297: the refinement call settles; its failure is caught, its
\* problems are merged, and the response is returned
HwRefineSettles ==
    /\ hwPc = "refine"
    /\ \E o \in StageOutcomes(HwTexts.refine, "first") :
       \E refineRes \in {callAI(MODEL_SMART, None.model, o, o)} :
            /\ hwLog' = hwLog \o Logged("refine", refineRes)
            /\ \E merged \in {AfterRefinement(hwProblems, refineRes)} :
                /\ hwProblems' = merged
                /\ hwRefined' = IF refineRes.ok THEN Parsed(refineRes) ELSE Undef
                /\ hwResult' = [kind |-> "return",
                                value |-> HomeworkResponse(hwContext, hwModel, merged)]
    /\ hwPc' = "done"
    /\ UNCHANGED <<hwContext, hwModel, hwToRefine, hwOriginal, mVars, parseVars, callVars, sessVars, oneVars, examVars>>

(***************************************************************************)
(* solveMathWithCode.                                                      *)
(***************************************************************************)
Solution(explanation, result) ==
    Obj(<<Member(Key.explanation, Str(explanation)),
          Member(Key.pythonCode, Str(<<"p">>)),
          Member(Key.result, Str(result))>>)

\* the reply texts of the three stages of solveMathWithCode
MathTexts ==
    [ search |-> { Undef, Str(<<"c", "t", "x">>) },
      solve |-> { Undef, Garbled, JsonText(Null), JsonText(Num(5)), JsonText(EmptyObj),
              JsonText(Solution(<<"e">>, <<"1">>)), FencedText(Solution(<<"e">>, <<"1">>)) },
      verify |-> { Undef, Garbled, JsonText(Null), JsonText(EmptyObj),
              JsonText(Obj(<<Member(Key.valid, Bool(TRUE))>>)),
              JsonText(Obj(<<Member(Key.valid, Bool(FALSE))>>)),
              JsonText(Obj(<<Member(Key.valid, Bool(FALSE)),
                             Member(Key.corrected_response, Solution(<<"f">>, <<"2">>))>>)),
              JsonText(Obj(<<Member(Key.valid, Bool(FALSE)),
                             Member(Key.corrected_response, Str(<<"x">>))>>)),
              JsonText(Obj(<<Member(Key.valid, Bool(FALSE)),
                             Member(Key.corrected_response,
                                    Obj(<<Member(Key.result, Str(<<"2">>))>>))>>)),
              JsonText(Obj(<<Member(Key.valid, Bool(FALSE)),
                             Member(Key.corrected_response, EmptyObj)>>)),
              JsonText(Obj(<<Member(Key.valid, Bool(FALSE)),
                             Member(Key.corrected_response, Null)>>)),
              JsonText(Obj(<<Member(Key.valid, Bool(TRUE)),
                             Member(Key.corrected_response, Solution(<<"f">>, <<"2">>))>>)),
              JsonText(Obj(<<Member(Key.valid, Num(0)),
                             Member(Key.corrected_response, Solution(<<"f">>, <<"2">>))>>)),
              JsonText(Obj(<<Member(Key.corrected_response, Solution(<<"f">>, <<"2">>))>>)) } ]

SearchOutcomes(n) ==
    {Responded(Response(t, c)) : t \in MathTexts.search, c \in { <<>>, <<"u1">>, <<"u1", "u2">> }}
    \cup {Threw(e) : e \in PipelineErrors(n)}

\* lines 693-698 and 705: { ...data, modelUsed, sources, wasAutoRepaired };
\* the three named members replace members of data that have their names
MathLabResponse(data, modelUsed, sources, wasAutoRepaired) ==
    [kind |-> "return",
     value |-> [members |-> Spread(data), modelUsed |-> modelUsed,
                sources |-> sources, wasAutoRepaired |-> wasAutoRepaired]]

\* solveMathWithCode is called (lines 593-598)
MathStart ==
    /\ mPc = "idle"
    /\ hwPc = "idle"
    /\ onePc = "idle"
    /\ \E useSearch \in BOOLEAN :
        /\ mUseSearch' = useSearch
        /\ mPc' = IF useSearch THEN "search" ELSE "solve"
    /\ UNCHANGED <<mLog, mSources, mFirstPass, mModel, mResult,
                   hwVars, parseVars, callVars, sessVars, oneVars, examVars>>

\* lines 601-614: the search call settles
MathSearchSettles ==
    /\ mPc = "search"
    /\ \E o \in SearchOutcomes("first") :
       \E searchRes \in {callAI(MODEL_FAST, None.model, o, o)} :
            /\ mLog' = mLog \o Logged("search", searchRes)
            /\ IF searchRes.ok
               THEN /\ mSources' = searchRes.output.chunks
                    /\ mPc' = "solve"
                    /\ UNCHANGED mResult
               ELSE /\ mResult' = Thrown(searchRes.error)
                    /\ mPc' = "done"
                    /\ UNCHANGED mSources
    /\ UNCHANGED <<mUseSearch, mFirstPass, mModel, hwVars, parseVars, callVars, sessVars, oneVars, examVars>>

\* lines 647-676: the solve call settles; the verification prompt reads
\* firstPassData.explanation and firstPassData.pythonCode
MathSolveSettles ==
    /\ mPc = "solve"
    /\ \E o1 \in StageOutcomes(MathTexts.solve, "first") :
       \E o2 \in FallbackOutcomes(MODEL_SMART, MODEL_FAST, o1, MathTexts.solve) :
       \E res \in {callAI(MODEL_SMART, MODEL_FAST, o1, o2)} :
            /\ mLog' = mLog \o Logged("solve", res)
            /\ \E firstPassData \in {Parsed(res)} :
               IF ~res.ok
               THEN /\ mResult' = Thrown(res.error)
                    /\ mPc' = "done"
                    /\ UNCHANGED <<mFirstPass, mModel>>
               ELSE IF ~Readable(firstPassData)
               THEN /\ mResult' = Thrown(TypeError)
                    /\ mPc' = "done"
                    /\ mFirstPass' = firstPassData
                    /\ mModel' = res.model
               ELSE /\ mFirstPass' = firstPassData
                    /\ mModel' = res.model
                    /\ mPc' = "verify"
                    /\ UNCHANGED mResult
    /\ UNCHANGED <<mUseSearch, mSources, hwVars, parseVars, callVars, sessVars, oneVars, examVars>>

Corrects_withoutResponse(verifyRes, verifyData) ==
    /\ verifyRes.ok
    /\ Readable(verifyData)
    /\ StrictEquals(Get(verifyData, Key.valid), Bool(FALSE))

\* lines 678-691 and 700: the return inside the try is reached; a failed call
\* and a TypeError on verifyData are caught
Corrects(verifyRes, verifyData) ==
    /\ verifyRes.ok
    /\ Readable(verifyData)
    /\ StrictEquals(Get(verifyData, Key.valid), Bool(FALSE))
    /\ Truthy(Get(verifyData, Key.corrected_response))

Resolved_merges(firstPassData, verifyRes, verifyData, model, sources) ==
    IF Corrects(verifyRes, verifyData)
    THEN [kind |-> "return",
          value |-> [members |-> Spread(firstPassData)
                                    \o Spread(Get(verifyData, Key.corrected_response)),
                     modelUsed |-> <<model, " + Verified">>,
                     sources |-> sources, wasAutoRepaired |-> TRUE]]
    ELSE MathLabResponse(firstPassData, <<model>>, sources, FALSE)

Resolved_uncaught(firstPassData, verifyRes, verifyData, model, sources) ==
    IF ~verifyRes.ok THEN Thrown(verifyRes.error)
    ELSE IF Corrects(verifyRes, verifyData)
    THEN MathLabResponse(Get(verifyData, Key.corrected_response),
                         <<model, " + Verified">>, sources, TRUE)
    ELSE MathLabResponse(firstPassData, <<model>>, sources, FALSE)

Resolved_forgetsSources(firstPassData, verifyRes, verifyData, model, sources) ==
    IF Corrects(verifyRes, verifyData)
    THEN MathLabResponse(Get(verifyData, Key.corrected_response),
                         <<model, " + Verified">>, <<>>, TRUE)
    ELSE MathLabResponse(firstPassData, <<model>>, sources, FALSE)

\* lines 678-705: what solveMathWithCode returns once the verification call
\* has settled
Resolved(firstPassData, verifyRes, verifyData, model, sources) ==
    IF Corrects(verifyRes, verifyData)
    THEN MathLabResponse(Get(verifyData, Key.corrected_response),
                         <<model, " + Verified">>, sources, TRUE)
    ELSE MathLabResponse(firstPassData, <<model>>, sources, FALSE)

\* lines 678-705: the verification call settles; whatever is thrown inside the
\* try is caught, and the first pass is returned unless a correction is
MathVerifySettles ==
    /\ mPc = "verify"
    /\ \E o \in StageOutcomes(MathTexts.verify, "first") :
       \E verifyRes \in {callAI(MODEL_FAST, None.model, o, o)} :
            /\ mLog' = mLog \o Logged("verify", verifyRes)
            /\ \E verifyData \in {Parsed(verifyRes)} :
                mResult' = Resolved(mFirstPass, verifyRes, verifyData, mModel, mSources)
    /\ mPc' = "done"
    /\ UNCHANGED <<mUseSearch, mSources, mFirstPass, mModel, hwVars, parseVars, callVars, sessVars, oneVars, examVars>>

(***************************************************************************)
(* The pipelines: one run of analyzeHomework or of solveMathWithCode.      *)
(***************************************************************************)

(***************************************************************************)
(* The functions of one call: auditExamGrading, analyzeVideoFrame and      *)
(* analyzeYoutubeSegment.                                                  *)
(***************************************************************************)

\* result.text || fallback
TextOr(text, fallback) == IF Truthy(text) THEN text ELSE fallback

\* sources.length ? sources : undefined
SourcesOf(response) == IF response.chunks # <<>> THEN Arr(response.chunks) ELSE Undef

\* lines 740-749: the call of auditExamGrading, settled with outcome o
AuditCall(o) == callAI(MODEL_SMART, None.model, o, o)

\* lines 740-751: auditExamGrading once its call has settled with outcome o
auditExamGrading(o) ==
    LET res == AuditCall(o)
    IN  IF res.ok THEN [kind |-> "return", value |-> Parsed(res)]
        ELSE Thrown(res.error)

\* lines 453-490 and 518-551: a video analysis once its call has settled
VideoAnalysis(primaryModel, o1, o2) ==
    LET res == callAI(primaryModel, MODEL_FAST, o1, o2)
        output == Parsed(res)
    IN  IF ~res.ok THEN Thrown(res.error)
        ELSE IF ~Readable(output) THEN Thrown(TypeError)
        ELSE [kind |-> "return",
              value |-> [text |-> TextOr(Get(output, Key.analysis), Str(<<"A", "n", "a", "l", "y", "s", "i", "s", " ", "c", "o", "m", "p", "l", "e", "t", "e", ".">>)),
                         modelUsed |-> res.model,
                         sources |-> SourcesOf(res.output),
                         videoMetadata |-> [ocrText |-> Get(output, Key.transcribed_text),
                                            factChecks |-> Get(output, Key.fact_checks)]]]

\* a function that empties the exam slot when it is called
OneCallStart_clearsExam ==
    /\ onePc = "idle"
    /\ hwPc = "idle"
    /\ mPc = "idle"
    /\ onePc' \in {"auditExamGrading", "analyzeVideoFrame", "analyzeYoutubeSegment"}
    /\ examSession' = None.session
    /\ UNCHANGED <<oneResult, hwVars, mVars, parseVars, callVars, examVars,
                   chatSession, chatModelUsed, examModelUsed, sessCreated,
                   sessDelivered, sessPending, sessFinished>>

\* one of the three functions is called and issues its call
OneCallStart ==
    /\ onePc = "idle"
    /\ hwPc = "idle"
    /\ mPc = "idle"
    /\ onePc' \in {"auditExamGrading", "analyzeVideoFrame", "analyzeYoutubeSegment"}
    /\ UNCHANGED <<oneResult, hwVars, mVars, parseVars, callVars, sessVars, examVars>>

\* the call settles and the function returns or throws
OneCallSettles ==
    /\ onePc \notin {"idle", "done"}
    /\ \E texts \in {{Undef, Garbled, JsonText(Null), JsonText(EmptyObj),
                      JsonText(Obj(<<Member(Key.analysis, Str(<<"a">>))>>))}} :
       \E o1 \in StageOutcomes(texts, "first") :
            IF onePc = "auditExamGrading"
            THEN oneResult' = [fn |-> onePc, result |-> auditExamGrading(o1),
                               log |-> Logged(onePc, AuditCall(o1))]
            ELSE \E primaryModel \in {IF onePc = "analyzeVideoFrame" THEN MODEL_FAST
                                       ELSE MODEL_SMART} :
                 \E o2 \in FallbackOutcomes(primaryModel, MODEL_FAST, o1, texts) :
                    oneResult' = [fn |-> onePc,
                                  result |-> VideoAnalysis(primaryModel, o1, o2),
                                  log |-> Logged(onePc,
                                            callAI(primaryModel, MODEL_FAST, o1, o2))]
    /\ onePc' = "done"
    /\ UNCHANGED <<hwVars, mVars, parseVars, callVars, sessVars, examVars>>

InitPipeline ==
    /\ parseIn = None.input
    /\ parseOut = None.run
    /\ callPc = "idle"
    /\ callPrimary = None.model
    /\ callFallback = None.model
    /\ callInvoked = <<>>
    /\ callSettled = <<>>
    /\ callResult = None.result
    /\ hwPc = "idle"
    /\ hwLog = <<>>
    /\ hwContext = None.context
    /\ hwModel = None.model
    /\ hwProblems = <<>>
    /\ hwToRefine = <<>>
    /\ hwOriginal = <<>>
    /\ hwRefined = Undef
    /\ hwResult = None.result
    /\ mPc = "idle"
    /\ mLog = <<>>
    /\ mUseSearch = FALSE
    /\ mSources = <<>>
    /\ mFirstPass = Undef
    /\ mModel = None.model
    /\ mResult = None.result
    /\ chatSession = None.session
    /\ chatModelUsed = MODEL_FAST
    /\ examSession = None.session
    /\ examModelUsed = MODEL_FAST
    /\ sessCreated = 0
    /\ sessDelivered = <<>>
    /\ sessPending = {}
    /\ sessFinished = <<>>
    /\ onePc = "idle"
    /\ oneResult = None.result
    /\ isStarted = FALSE
    /\ strictMode = FALSE
    /\ loading = FALSE
    /\ isAuditing = FALSE
    /\ messages = <<>>
    /\ examPending = {}
    /\ examAudits = <<>>

NextPipeline ==
    \/ OneCallStart
    \/ OneCallSettles
    \/ HwStart
    \/ HwTuningSettles
    \/ HwDeepSettles
    \/ HwRefineSettles
    \/ MathStart
    \/ MathSearchSettles
    \/ MathSolveSettles
    \/ MathVerifySettles

SpecPipeline == InitPipeline /\ [][NextPipeline]_vars

\* every invocation returns or fails
SpecPipelineFair ==
    /\ InitPipeline
    /\ [][NextPipeline]_vars
    /\ WF_vars(\/ HwTuningSettles \/ HwDeepSettles \/ HwRefineSettles
               \/ MathSearchSettles \/ MathSolveSettles \/ MathVerifySettles
               \/ OneCallSettles)

\* the functions called while both slots hold a session: initializeChat and
\* startExamSession have been called and their first turns are in flight
InitFrame ==
    /\ parseIn = None.input
    /\ parseOut = None.run
    /\ callPc = "idle"
    /\ callPrimary = None.model
    /\ callFallback = None.model
    /\ callInvoked = <<>>
    /\ callSettled = <<>>
    /\ callResult = None.result
    /\ hwPc = "idle"
    /\ hwLog = <<>>
    /\ hwContext = None.context
    /\ hwModel = None.model
    /\ hwProblems = <<>>
    /\ hwToRefine = <<>>
    /\ hwOriginal = <<>>
    /\ hwRefined = Undef
    /\ hwResult = None.result
    /\ mPc = "idle"
    /\ mLog = <<>>
    /\ mUseSearch = FALSE
    /\ mSources = <<>>
    /\ mFirstPass = Undef
    /\ mModel = None.model
    /\ mResult = None.result
    /\ chatSession = 1
    /\ chatModelUsed = MODEL_FAST
    /\ examSession = 2
    /\ examModelUsed = MODEL_FAST
    /\ sessCreated = 2
    /\ sessDelivered = <<[call |-> 1, op |-> "start", slot |-> "chat", session |-> 1],
                         [call |-> 2, op |-> "start", slot |-> "exam", session |-> 2]>>
    /\ sessPending = {[call |-> 1, op |-> "start", slot |-> "chat", session |-> 1],
                       [call |-> 2, op |-> "start", slot |-> "exam", session |-> 2]}
    /\ sessFinished = <<>>
    /\ onePc = "idle"
    /\ oneResult = None.result
    /\ isStarted = FALSE
    /\ strictMode = FALSE
    /\ loading = FALSE
    /\ isAuditing = FALSE
    /\ messages = <<>>
    /\ examPending = {}
    /\ examAudits = <<>>

SpecFrame == InitFrame /\ [][NextPipeline]_vars

(***************************************************************************)
(* The chat and exam sessions: initializeChat, sendChatMessage,            *)
(* startExamSession and sendExamMessage over the two module-level slots.   *)
(***************************************************************************)

MaxCalls == 3

Slots == {"chat", "exam"}

\* lines 394 and 848: the message of the error a send throws on an empty slot
NotInitialized(slot) ==
    [id |-> "new", status |-> 0, detail |-> <<>>,
     message |-> IF slot = "chat"
                 THEN <<"C", "h", "a", "t", " ", "n", "o", "t", " ", "i", "n", "i", "t", "i", "a", "l", "i", "z", "e", "d">>
                 ELSE <<"E", "x", "a", "m", " ", "n", "o", "t", " ", "s", "t", "a", "r", "t", "e", "d">>]

\* the session of the other slot
SessionOf_other(slot) == IF slot = "chat" THEN examSession ELSE chatSession

\* the session a slot holds and the model recorded beside it
SessionOf(slot) == IF slot = "chat" THEN chatSession ELSE examSession
ModelUsedOf(slot) == IF slot = "chat" THEN chatModelUsed ELSE examModelUsed

\* how many start and send calls have been made
SessCalls == Len(sessFinished) + Cardinality(sessPending)

\* what a session's sendMessage settles with
TurnOutcomes(n) ==
    {Responded(r) : r \in {Response(Undef, <<>>), Response(Str(<<"h", "i">>), <<"u1">>)}}
    \cup {Threw(e) : e \in {x \in PipelineErrors(n) : x.status = 429}}

\* the entry a finished call leaves: what it returned, or the error it threw,
\* and how many calls had been invoked by then
Finished(c, error, value) ==
    [call |-> c.call, op |-> c.op, slot |-> c.slot, session |-> c.session,
     at |-> SessCalls, error |-> error, value |-> value]

\* an assignment that empties a slot that holds a session
SlotWrite_clearsHeld(held, created) == IF held = None.session THEN created ELSE None.session

\* an assignment that leaves a session already in the slot where it is
SlotWrite_keepsFirst(held, created) == IF held = None.session THEN created ELSE held

\* chatSession = ai.chats.create(...): the slot takes the session created,
\* whatever it held
SlotWrite(held, created) == created

\* ai.chats.create handing back the session it made last
NewSession_reused == IF sessCreated = 0 THEN 1 ELSE sessCreated

\* ai.chats.create: a session that did not exist before
NewSession == sessCreated + 1

\* a start that records the smart model beside the session, whatever model
\* its apiCall was invoked with
StartBegins_recordsSmart(slot) ==
    /\ SessCalls < MaxCalls
    /\ \E c \in {[call |-> SessCalls + 1, op |-> "start", slot |-> slot,
                  session |-> NewSession]} :
            /\ sessCreated' = c.session
            /\ IF slot = "chat"
               THEN /\ chatSession' = SlotWrite(chatSession, c.session)
                    /\ chatModelUsed' = MODEL_SMART
                    /\ UNCHANGED <<examSession, examModelUsed>>
               ELSE /\ examSession' = SlotWrite(examSession, c.session)
                    /\ examModelUsed' = MODEL_SMART
                    /\ UNCHANGED <<chatSession, chatModelUsed>>
            /\ sessDelivered' = Append(sessDelivered, c)
            /\ sessPending' = sessPending \cup {c}
    /\ UNCHANGED <<sessFinished, parseVars, callVars, hwVars, mVars,
                   oneVars, examVars>>

\* the apiCall of a start up to its sendMessage: the slot takes a new session
\* and the model, and the first turn goes to that session
StartBegins(slot) ==
    /\ SessCalls < MaxCalls
    /\ \E c \in {[call |-> SessCalls + 1, op |-> "start", slot |-> slot,
                  session |-> NewSession]} :
            /\ sessCreated' = c.session
            /\ IF slot = "chat"
               THEN /\ chatSession' = SlotWrite(chatSession, c.session)
                    /\ chatModelUsed' = MODEL_FAST
                    /\ UNCHANGED <<examSession, examModelUsed>>
               ELSE /\ examSession' = SlotWrite(examSession, c.session)
                    /\ examModelUsed' = MODEL_FAST
                    /\ UNCHANGED <<chatSession, chatModelUsed>>
            /\ sessDelivered' = Append(sessDelivered, c)
            /\ sessPending' = sessPending \cup {c}
    /\ UNCHANGED <<sessFinished, parseVars, callVars, hwVars, mVars,
                   oneVars, examVars>>

initializeChat == StartBegins("chat")

startExamSession == StartBegins("exam")

\* what a start returns once callAI has settled
StartValue(slot, res) ==
    IF slot = "chat" THEN [output |-> res.output, model |-> res.model]
    ELSE [text |-> TextOr(res.output.text, Str(<<"R", "e", "a", "d", "y", ".">>)), modelUsed |-> res.model]

\* the first turn of a start settles and callAI returns or throws
StartSettles ==
    /\ \E c \in sessPending :
            /\ c.op = "start"
            /\ \E o \in TurnOutcomes("turn") :
               \E res \in {callAI(MODEL_FAST, None.model, o, o)} :
                    sessFinished' = Append(sessFinished,
                        IF res.ok THEN Finished(c, None.error, StartValue(c.slot, res))
                        ELSE Finished(c, res.error, Undef))
            /\ sessPending' = sessPending \ {c}
    /\ UNCHANGED <<chatSession, chatModelUsed, examSession, examModelUsed, sessCreated,
                   sessDelivered, parseVars, callVars, hwVars, mVars,
                   oneVars, examVars>>

\* the test of the slot a send begins with
SlotEmpty_never(slot) == FALSE

SlotEmpty(slot) == SessionOf(slot) = None.session

\* a send up to its sendMessage: thrown out on an empty slot, otherwise the
\* message goes to the session the slot holds
SendBegins(slot) ==
    /\ SessCalls < MaxCalls
    /\ \E c \in {[call |-> SessCalls + 1, op |-> "send", slot |-> slot,
                  session |-> SessionOf(slot)]} :
            IF SlotEmpty(slot)
            THEN /\ sessFinished' = Append(sessFinished, Finished(c, NotInitialized(slot), Undef))
                 /\ UNCHANGED <<sessDelivered, sessPending>>
            ELSE /\ sessDelivered' = Append(sessDelivered, c)
                 /\ sessPending' = sessPending \cup {c}
                 /\ UNCHANGED sessFinished
    /\ UNCHANGED <<chatSession, chatModelUsed, examSession, examModelUsed, sessCreated,
                   parseVars, callVars, hwVars, mVars,
                   oneVars, examVars>>

sendChatMessage == SendBegins("chat")

sendExamMessage == SendBegins("exam")

\* the sendMessage of a send settles: the turn is returned with the model the
\* slot records at that moment, or the error is thrown as it came
SendSettles ==
    /\ \E c \in sessPending :
            /\ c.op = "send"
            /\ \E o \in TurnOutcomes("turn") :
                    sessFinished' = Append(sessFinished,
                        IF o.ok
                        THEN Finished(c, None.error,
                                [text |-> TextOr(o.output.text, Str(<<>>)),
                                 sources |-> SourcesOf(o.output),
                                 modelUsed |-> ModelUsedOf(c.slot)])
                        ELSE Finished(c, o.error, Undef))
            /\ sessPending' = sessPending \ {c}
    /\ UNCHANGED <<chatSession, chatModelUsed, examSession, examModelUsed, sessCreated,
                   sessDelivered, parseVars, callVars, hwVars, mVars,
                   oneVars, examVars>>

InitSession ==
    /\ parseIn = None.input
    /\ parseOut = None.run
    /\ callPc = "idle"
    /\ callPrimary = None.model
    /\ callFallback = None.model
    /\ callInvoked = <<>>
    /\ callSettled = <<>>
    /\ callResult = None.result
    /\ hwPc = "idle"
    /\ hwLog = <<>>
    /\ hwContext = None.context
    /\ hwModel = None.model
    /\ hwProblems = <<>>
    /\ hwToRefine = <<>>
    /\ hwOriginal = <<>>
    /\ hwRefined = Undef
    /\ hwResult = None.result
    /\ mPc = "idle"
    /\ mLog = <<>>
    /\ mUseSearch = FALSE
    /\ mSources = <<>>
    /\ mFirstPass = Undef
    /\ mModel = None.model
    /\ mResult = None.result
    /\ chatSession = None.session
    /\ chatModelUsed = MODEL_FAST
    /\ examSession = None.session
    /\ examModelUsed = MODEL_FAST
    /\ sessCreated = 0
    /\ sessDelivered = <<>>
    /\ sessPending = {}
    /\ sessFinished = <<>>
    /\ onePc = "idle"
    /\ oneResult = None.result
    /\ isStarted = FALSE
    /\ strictMode = FALSE
    /\ loading = FALSE
    /\ isAuditing = FALSE
    /\ messages = <<>>
    /\ examPending = {}
    /\ examAudits = <<>>

NextSession ==
    \/ initializeChat
    \/ startExamSession
    \/ StartSettles
    \/ sendChatMessage
    \/ sendExamMessage
    \/ SendSettles

SpecSession == InitSession /\ [][NextSession]_vars

(***************************************************************************)
(* The ExamPrep component: startSession, handleSend, handleFinishExam and  *)
(* the Exit button, over the exam slot.                                    *)
(***************************************************************************)

\* a ChatMessage of the transcript
ChatMessage(role, text, modelUsed, sources, examAudit) ==
    [role |-> role, text |-> text, modelUsed |-> modelUsed, sources |-> sources,
     examAudit |-> examAudit]

\* line 241: the transcript as text, one line "ROLE: text" for each message
RECURSIVE HistoryText(_)
HistoryText(msgs) ==
    IF msgs = <<>> THEN <<>>
    ELSE LET m == msgs[Len(msgs)]
             line == (IF m.role = "user" THEN <<"U", "S", "E", "R">> ELSE <<"M", "O", "D", "E", "L">>)
                     \o <<":", " ">> \o m.text.v
         IN  IF Len(msgs) = 1 THEN line
             ELSE HistoryText(SubSeq(msgs, 1, Len(msgs) - 1)) \o <<"\n">> \o line

\* lines 180-189 with startExamSession up to its sendMessage: the Start button
startSession ==
    /\ ~isStarted
    /\ ~loading
    /\ Len(sessDelivered) < MaxCalls
    /\ strictMode' \in BOOLEAN
    /\ loading' = TRUE
    /\ \E c \in {[call |-> Len(sessDelivered) + 1, op |-> "start", slot |-> "exam",
                  session |-> NewSession, message |-> <<>>]} :
            /\ sessCreated' = c.session
            /\ examSession' = SlotWrite(examSession, c.session)
            /\ examModelUsed' = MODEL_FAST
            /\ sessDelivered' = Append(sessDelivered, c)
            /\ examPending' = examPending \cup {[handler |-> "startSession", call |-> c.call]}
    /\ UNCHANGED <<isStarted, isAuditing, messages, examAudits, chatSession, chatModelUsed,
                   sessPending, sessFinished, parseVars, callVars, hwVars, mVars, oneVars>>

\* lines 188-196: the first turn settles
ExamStartSettles ==
    /\ \E c \in examPending :
            /\ c.handler = "startSession"
            /\ examPending' = examPending \ {c}
            /\ \E o \in TurnOutcomes("turn") :
               \E res \in {callAI(MODEL_FAST, None.model, o, o)} :
                    IF res.ok
                    THEN /\ messages' = <<ChatMessage("model", StartValue("exam", res).text,
                                                       StartValue("exam", res).modelUsed,
                                                       Undef, Undef)>>
                         /\ isStarted' = TRUE
                    ELSE UNCHANGED <<messages, isStarted>>
    /\ loading' = FALSE
    /\ UNCHANGED <<strictMode, isAuditing, examAudits, sessVars,
                   parseVars, callVars, hwVars, mVars, oneVars>>

\* lines 198-206 with sendExamMessage up to its sendMessage: the Send button
\* or the Enter key
handleSend ==
    /\ isStarted
    /\ Len(sessDelivered) < MaxCalls
    /\ messages' = Append(messages, ChatMessage("user", Str(<<"x">>), Undef, Undef, Undef))
    /\ IF SlotEmpty("exam")
       THEN /\ loading' = FALSE
            /\ UNCHANGED <<sessDelivered, examPending>>
       ELSE \E c \in {[call |-> Len(sessDelivered) + 1, op |-> "send", slot |-> "exam",
                       session |-> examSession, message |-> <<"x">>]} :
                /\ loading' = TRUE
                /\ sessDelivered' = Append(sessDelivered, c)
                /\ examPending' = examPending \cup {[handler |-> "handleSend", call |-> c.call]}
    /\ UNCHANGED <<isStarted, strictMode, isAuditing, examAudits,
                   chatSession, chatModelUsed, examSession, examModelUsed, sessCreated,
                   sessPending, sessFinished, parseVars, callVars, hwVars, mVars, oneVars>>

\* lines 206-217 and 849-861: the turn of handleSend settles
ExamSendSettles ==
    /\ \E c \in examPending :
            /\ c.handler = "handleSend"
            /\ examPending' = examPending \ {c}
            /\ \E o \in TurnOutcomes("turn") :
                    IF o.ok
                    THEN messages' = Append(messages,
                            ChatMessage("model", TextOr(o.output.text, Str(<<>>)),
                                        examModelUsed, SourcesOf(o.output), Undef))
                    ELSE UNCHANGED messages
    /\ loading' = FALSE
    /\ UNCHANGED <<isStarted, strictMode, isAuditing, examAudits, sessVars,
                   parseVars, callVars, hwVars, mVars, oneVars>>

\* lines 220-228 with sendExamMessage up to its sendMessage: the Finish
\* button, shown in strict mode and disabled while loading or auditing
handleFinishExam ==
    /\ isStarted
    /\ strictMode
    /\ ~loading
    /\ ~isAuditing
    /\ Len(sessDelivered) < MaxCalls
    /\ messages' = Append(messages, ChatMessage("user", Str(<<"I", " ", "a", "m", " ", "f", "i", "n", "i", "s", "h", "e", "d", ".", " ", "P", "l", "e", "a", "s", "e", " ", "g", "r", "a", "d", "e", " ", "m", "e", ".">>), Undef, Undef, Undef))
    /\ IF SlotEmpty("exam")
       THEN /\ loading' = FALSE
            /\ UNCHANGED <<sessDelivered, examPending>>
       ELSE \E c \in {[call |-> Len(sessDelivered) + 1, op |-> "send", slot |-> "exam",
                       session |-> examSession, message |-> <<"F", "I", "N", "I", "S", "H", "_", "E", "X", "A", "M">>]} :
                /\ loading' = TRUE
                /\ sessDelivered' = Append(sessDelivered, c)
                /\ examPending' = examPending \cup
                        {[handler |-> "handleFinishExam", call |-> c.call,
                          seen |-> messages, strict |-> strictMode]}
    /\ UNCHANGED <<isStarted, strictMode, isAuditing, examAudits,
                   chatSession, chatModelUsed, examSession, examModelUsed, sessCreated,
                   sessPending, sessFinished, parseVars, callVars, hwVars, mVars, oneVars>>

\* the transcript without the report just received
TranscriptFor_stale(seen, gradingMsg) == seen

\* line 241: [...messages, gradingMsg], messages as the handler saw them
\* when it began
TranscriptFor(seen, gradingMsg) == Append(seen, gradingMsg)

\* lines 228-242: the grading turn settles; the report joins the transcript
\* and, in strict mode, auditExamGrading is called with the transcript the
\* handler saw when it began and the report
FinishGradingSettles ==
    /\ \E c \in examPending :
            /\ c.handler = "handleFinishExam"
            /\ \E o \in TurnOutcomes("turn") :
                    IF ~o.ok
                    THEN /\ examPending' = examPending \ {c}
                         /\ loading' = FALSE
                         /\ UNCHANGED <<messages, isAuditing, examAudits>>
                    ELSE \E gradingMsg \in {ChatMessage("model", TextOr(o.output.text, Str(<<>>)),
                                                        examModelUsed, Undef, Undef)} :
                            /\ messages' = Append(messages, gradingMsg)
                            /\ IF c.strict
                               THEN /\ isAuditing' = TRUE
                                    /\ examAudits' = Append(examAudits,
                                            [call |-> c.call,
                                             historyText |->
                                                HistoryText(TranscriptFor(c.seen, gradingMsg)),
                                             made |-> <<>>, kind |-> "pending"])
                                    /\ examPending' = (examPending \ {c})
                                            \cup {[handler |-> "auditExamGrading", call |-> c.call]}
                                    /\ UNCHANGED loading
                               ELSE /\ examPending' = examPending \ {c}
                                    /\ loading' = FALSE
                                    /\ UNCHANGED <<isAuditing, examAudits>>
    /\ UNCHANGED <<isStarted, strictMode, sessVars, parseVars, callVars, hwVars, mVars, oneVars>>

\* handleFinishExam adding an audit message whatever the audit call did
Audited_always(audit) == TRUE

\* line 242: auditExamGrading returned; a rejection goes to the catch of line 253
Audited(audit) == audit.kind = "return"

\* lines 242-255: the audit call settles
FinishAuditSettles ==
    /\ \E c \in examPending :
            /\ c.handler = "auditExamGrading"
            /\ examPending' = examPending \ {c}
            /\ \E o \in StageOutcomes({Undef, Garbled,
                                       JsonText(Obj(<<Member(Key.fairnessScore, Num(5))>>))},
                                      "first") :
               \E audit \in {auditExamGrading(o)} :
                /\ examAudits' = [i \in DOMAIN examAudits |->
                        IF examAudits[i].call = c.call
                        THEN [examAudits[i] EXCEPT
                                !.made = [k \in DOMAIN AuditCall(o).made |->
                                            AuditCall(o).made[k].model],
                                !.kind = audit.kind]
                        ELSE examAudits[i]]
                /\ IF Audited(audit)
                   THEN /\ messages' = Append(messages,
                                ChatMessage("model", Str(<<"*", "*", "I", "n", "d", "e", "p", "e", "n", "d", "e", "n", "t", " ", "G", "r", "a", "d", "i", "n", "g", " ", "A", "u", "d", "i", "t", " ", "C", "o", "m", "p", "l", "e", "t", "e", "*", "*">>), 
                                            "Auditor Bot", Undef,
                                            IF audit.kind = "return" THEN audit.value
                                            ELSE Undef))
                        /\ isAuditing' = FALSE
                   ELSE UNCHANGED <<messages, isAuditing>>
    /\ loading' = FALSE
    /\ UNCHANGED <<isStarted, strictMode, sessVars,
                   parseVars, callVars, hwVars, mVars, oneVars>>

\* line 541: the Exit button
ExitExam ==
    /\ isStarted
    /\ isStarted' = FALSE
    /\ messages' = <<>>
    /\ UNCHANGED <<strictMode, loading, isAuditing, examPending, examAudits, sessVars,
                   parseVars, callVars, hwVars, mVars, oneVars>>

InitExam ==
    /\ parseIn = None.input
    /\ parseOut = None.run
    /\ callPc = "idle"
    /\ callPrimary = None.model
    /\ callFallback = None.model
    /\ callInvoked = <<>>
    /\ callSettled = <<>>
    /\ callResult = None.result
    /\ hwPc = "idle"
    /\ hwLog = <<>>
    /\ hwContext = None.context
    /\ hwModel = None.model
    /\ hwProblems = <<>>
    /\ hwToRefine = <<>>
    /\ hwOriginal = <<>>
    /\ hwRefined = Undef
    /\ hwResult = None.result
    /\ mPc = "idle"
    /\ mLog = <<>>
    /\ mUseSearch = FALSE
    /\ mSources = <<>>
    /\ mFirstPass = Undef
    /\ mModel = None.model
    /\ mResult = None.result
    /\ chatSession = None.session
    /\ chatModelUsed = MODEL_FAST
    /\ examSession = None.session
    /\ examModelUsed = MODEL_FAST
    /\ sessCreated = 0
    /\ sessDelivered = <<>>
    /\ sessPending = {}
    /\ sessFinished = <<>>
    /\ onePc = "idle"
    /\ oneResult = None.result
    /\ isStarted = FALSE
    /\ strictMode = FALSE
    /\ loading = FALSE
    /\ isAuditing = FALSE
    /\ messages = <<>>
    /\ examPending = {}
    /\ examAudits = <<>>

NextExam ==
    \/ startSession
    \/ ExamStartSettles
    \/ handleSend
    \/ ExamSendSettles
    \/ handleFinishExam
    \/ FinishGradingSettles
    \/ FinishAuditSettles
    \/ ExitExam

SpecExam == InitExam /\ [][NextExam]_vars

(***************************************************************************)
(* Properties of callAI, checked under SpecCall.                           *)
(***************************************************************************)
\* quota-classified, as the specification words it: status 429, or "429" or
\* "quota" in the message (in the serialized error when there is no message)
QuotaClassified(e) ==
    LET msg == IF e.message # <<>> THEN e.message
               ELSE <<"{">> \o StatusText(e.status) \o e.detail \o <<"}">>
    IN  \/ e.status = 429
        \/ \E i \in 1..Len(msg) :
              i + 2 <= Len(msg) /\ SubSeq(msg, i, i + 2) = <<"4", "2", "9">>
        \/ \E i \in 1..Len(msg) :
              i + 4 <= Len(msg) /\ SubSeq(msg, i, i + 4) = <<"q", "u", "o", "t", "a">>

PrimaryFailed == Len(callSettled) >= 1 /\ ~callSettled[1].ok
PrimaryFailedQuota == PrimaryFailed /\ QuotaClassified(callSettled[1].error)
FallbackSettled == Len(callSettled) = 2

\* C1: when the primary fails with a quota-classified error and a fallback is
\* configured, the primary then the fallback are each invoked exactly once, and
\* when the fallback responds the call returns its output tagged with the
\* fallback model id.
C1_FallbackAnswers ==
    (PrimaryFailedQuota /\ callFallback # None.model) =>
        /\ callInvoked = <<callPrimary, callFallback>>
        /\ callPc = "done" => FallbackSettled
        /\ (FallbackSettled /\ callSettled[2].ok) =>
              callResult = [kind |-> "return", output |-> callSettled[2].output,
                            model |-> callFallback]

C1_Witness ==
    /\ callPc = "done"
    /\ PrimaryFailedQuota
    /\ FallbackSettled
    /\ callSettled[2].ok
    /\ callResult.kind = "return"
    /\ callResult.model = MODEL_FAST

\* C2: a primary error that is not quota-classified, whatever its message, makes
\* the call fail with that same error, and the fallback is never invoked.
C2_NonQuotaPropagates ==
    (PrimaryFailed /\ ~QuotaClassified(callSettled[1].error)) =>
        /\ callInvoked = <<callPrimary>>
        /\ callPc = "done"
        /\ callResult = Thrown(callSettled[1].error)

\* C3: one call invokes the provider at most twice and never the same tier
\* twice; the fallback is invoked only after a quota-classified failure of the
\* primary; a primary that responds is the one tagged, and no fallback follows.
C3_OneRetryOnQuotaOnly ==
    /\ Len(callInvoked) <= 2
    /\ \A i, j \in 1..Len(callInvoked) : i # j => callInvoked[i] # callInvoked[j]
    /\ Len(callInvoked) = 2 => PrimaryFailedQuota
    /\ (Len(callSettled) >= 1 /\ callSettled[1].ok) =>
          /\ callInvoked = <<callPrimary>>
          /\ callResult = [kind |-> "return", output |-> callSettled[1].output,
                           model |-> callPrimary]

\* C4: with no fallback configured, a quota-classified failure of the primary
\* makes the call fail with the quota error after exactly one invocation.
C4_NoFallbackQuotaFails ==
    (PrimaryFailedQuota /\ callFallback = None.model) =>
        /\ callPc = "done"
        /\ callInvoked = <<callPrimary>>
        /\ callResult = Thrown(QuotaError)

C4_Witness ==
    /\ callFallback = None.model
    /\ PrimaryFailedQuota
    /\ callSettled[1].error.status # 429
    /\ callResult = Thrown(QuotaError)

\* C5 as stated: after a quota-classified primary failure with a fallback
\* configured, a fallback that fails with E makes the call fail with E itself.
C5_FallbackErrorItself ==
    (PrimaryFailedQuota /\ callFallback # None.model /\ FallbackSettled
        /\ ~callSettled[2].ok) =>
        callResult = Thrown(callSettled[2].error)

\* C5 amended: after a quota-classified primary failure with a fallback
\* configured, the fallback is invoked once and nothing after it; a fallback
\* that responds is returned, a fallback that fails with an error E that is not
\* quota-classified makes the call fail with E itself, and one that fails with
\* a quota-classified error makes it fail with the quota error in its place.
C5_FallbackOutcomePropagates ==
    (PrimaryFailedQuota /\ callFallback # None.model /\ FallbackSettled) =>
        /\ callPc = "done"
        /\ callInvoked = <<callPrimary, callFallback>>
        /\ callResult =
              IF callSettled[2].ok
              THEN [kind |-> "return", output |-> callSettled[2].output,
                    model |-> callFallback]
              ELSE IF QuotaClassified(callSettled[2].error) THEN Thrown(QuotaError)
              ELSE Thrown(callSettled[2].error)

C5_Witness ==
    /\ PrimaryFailedQuota
    /\ FallbackSettled
    /\ ~callSettled[2].ok
    /\ callSettled[2].error.status = 429
    /\ callResult = Thrown(QuotaError)
    /\ callResult.error # callSettled[2].error

\* C6: a failure is treated as quota-exceeded (it leads to the fallback when one
\* is configured, and is replaced by the quota error) if and only if it is
\* quota-classified; every other failure is treated as non-recoverable.
C6_TreatedAsQuotaIffClassified ==
    PrimaryFailed =>
        /\ callFallback # None.model =>
              (Len(callInvoked) = 2 <=> QuotaClassified(callSettled[1].error))
        /\ callFallback = None.model =>
              (callResult = Thrown(QuotaError) <=> QuotaClassified(callSettled[1].error))

(***************************************************************************)
(* Properties of cleanAndParseJSON, checked under SpecParse.               *)
(***************************************************************************)
Sanitized == parseOut # None.run

IsJSValue(x) == x.t \in {"null", "bool", "num", "str", "arr", "obj"}

\* whether neither the brace span nor the cleaned text is valid JSON
NoStrategyReads(text) ==
    /\ ~(BraceCandidate(text).some /\ JSONParse(BraceCandidate(text).text).ok)
    /\ ~JSONParse(LooseClean(text)).ok

\* C7: for every input cleanAndParseJSON returns a value and does not throw;
\* for an absent input, and when no strategy yields valid JSON, the value is
\* the empty object.
C7_NeverThrows ==
    Sanitized =>
        /\ ~parseOut.threw
        /\ IsJSValue(parseOut.val)
        /\ TextOf(parseIn).t = "undef" => parseOut.val = EmptyObj
        /\ (TextOf(parseIn).t = "str" /\ NoStrategyReads(TextOf(parseIn).v)) =>
              parseOut.val = EmptyObj

C7_Witness ==
    /\ Sanitized
    /\ parseIn.kind = "raw"
    /\ parseIn.text.t = "str"
    /\ Len(parseIn.text.v) >= 3
    /\ BraceCandidate(parseIn.text.v).some
    /\ NoStrategyReads(parseIn.text.v)
    /\ parseOut = [threw |-> FALSE, val |-> EmptyObj]

\* C8 as stated: a text made of a valid JSON object with any characters before
\* and after it is read as that object.
C8_SpanInAnyProse ==
    (Sanitized /\ parseIn.kind = "span") => parseOut.val = JSONParse(parseIn.core).val

HasChar(s, c) == \E i \in 1..Len(s) : s[i] = c

\* C8 amended: a text made of a valid JSON object with prose before and after
\* it is read as that object, provided the prose before it holds no opening
\* brace and the prose after it no closing brace.
C8_SpanInBraceFreeProse ==
    (Sanitized /\ parseIn.kind = "span" /\ ~HasChar(parseIn.pre, "{")
        /\ ~HasChar(parseIn.post, "}")) =>
        parseOut = [threw |-> FALSE, val |-> JSONParse(parseIn.core).val]

C8_Witness ==
    /\ Sanitized
    /\ parseIn.kind = "span"
    /\ Len(parseIn.pre) = MaxProseLen
    /\ HasChar(parseIn.pre, "}")
    /\ HasChar(parseIn.post, "{")
    /\ ~HasChar(parseIn.pre, "{")
    /\ ~HasChar(parseIn.post, "}")
    /\ parseOut.val = JSONParse(parseIn.core).val
    /\ parseOut.val # EmptyObj

Entries(log, stage) == SelectSeq(log, LAMBDA e : e.stage = stage)

\* the call of the stage ended with a provider error
StageFailed(log, stage) ==
    LET es == Entries(log, stage)
    IN  Len(es) > 0 /\ ~es[Len(es)].outcome.ok

\* the text is absent, unparseable, or parses to a value with none of the keys
LacksKeys(text, keys) ==
    LET x == cleanAndParseJSON(text).val
    IN  \A k \in keys : OptGet(x, k) = Undef

\* the call of the stage ended with a response whose text is unusable
StageUnusable(log, stage, keys) ==
    LET es == Entries(log, stage)
    IN  /\ Len(es) > 0
        /\ es[Len(es)].outcome.ok
        /\ LacksKeys(es[Len(es)].outcome.output.text, keys)

TuningKeys == {Key.subject, Key.topic, Key.has_student_solution, Key.grading_rules}
DeepKeys == {Key.problems}
SolveKeys == {Key.explanation, Key.pythonCode, Key.result}
VerifyKeys == {Key.valid, Key.corrected_response}

HwCallsAnswered ==
    hwPc = "done" /\ ~StageFailed(hwLog, "tuning") /\ ~StageFailed(hwLog, "deep")

MathCallsAnswered ==
    mPc = "done" /\ ~StageFailed(mLog, "search") /\ ~StageFailed(mLog, "solve")

\* C10: malformed structured output never fails a pipeline.  A run of
\* analyzeHomework whose calls were answered and whose tuning or deep-analysis
\* response is unusable (text absent, unparseable, or parsed to a value
\* without the expected keys) completes successfully, an unusable
\* deep-analysis response giving no problems and no refinement call; a run of
\* solveMathWithCode whose calls were answered and whose solve or
\* verification response is unusable returns a result with wasAutoRepaired
\* false.
C10_MalformedOutputNeverFails ==
    /\ (HwCallsAnswered /\ StageUnusable(hwLog, "tuning", TuningKeys)) =>
            hwResult.kind = "return"
    /\ (HwCallsAnswered /\ StageUnusable(hwLog, "deep", DeepKeys)) =>
            /\ hwResult.kind = "return"
            /\ hwResult.value.problems = <<>>
            /\ Entries(hwLog, "refine") = <<>>
    /\ (MathCallsAnswered /\ (\/ StageUnusable(mLog, "solve", SolveKeys)
                              \/ StageUnusable(mLog, "verify", VerifyKeys))) =>
            /\ mResult.kind = "return"
            /\ ~mResult.value.wasAutoRepaired

\* the records of a reply, none when it holds no array of them
RecordsOf(reply) ==
    IF OptGet(reply, Key.problems).t = "arr" THEN OptGet(reply, Key.problems).v ELSE <<>>

\* the corrected records of the run
HwFixes == RecordsOf(hwRefined)

\* the run is over and its refinement call was made
HwRefined == hwPc = "done" /\ Entries(hwLog, "refine") # <<>>

SameStatement(p, q) ==
    /\ Get(p, Key.problem_statement).t = "str"
    /\ Get(p, Key.problem_statement) = Get(q, Key.problem_statement)

\* both answers absent, both null, or the same text
SameAnswer(p, q) == Get(p, Key.student_answer) = Get(q, Key.student_answer)

\* record k of the merged sequence is the corrected record q
ReplacedBy(k, q) ==
    /\ hwProblems[k] # hwOriginal[k]
    /\ \A i \in 1..Len(q.v) : Get(hwProblems[k], q.v[i].k) = q.v[i].x

\* the reply of the refinement stage is one corrected record
OneFix == HwRefined /\ Len(HwFixes) = 1 /\ HwFixes[1].t = "obj"

\* record k, and no other, has the problem_statement of q
OnlyStatementMatch(k, q) ==
    \A j \in 1..Len(hwOriginal) : SameStatement(hwOriginal[j], q) <=> j = k

\* C11 as stated: a corrected record whose problem_statement is that of
\* original record k and of no other record replaces exactly record k; every
\* other record of the merged sequence is the original one at its position.
C11_StatementMatchReplacesK ==
    OneFix =>
        \A k \in 1..Len(hwOriginal) :
            OnlyStatementMatch(k, HwFixes[1]) =>
                /\ Len(hwProblems) = Len(hwOriginal)
                /\ ReplacedBy(k, HwFixes[1])
                /\ \A j \in 1..Len(hwOriginal) : j # k => hwProblems[j] = hwOriginal[j]

\* C11 amended: the same, provided no record before k has the student_answer
\* of the corrected record (two absent or two null answers are the same).
C11_FirstMatchReplacesK ==
    OneFix =>
        \A k \in 1..Len(hwOriginal) :
            (/\ OnlyStatementMatch(k, HwFixes[1])
             /\ \A j \in 1..(k - 1) : ~SameAnswer(hwOriginal[j], HwFixes[1])) =>
                /\ Len(hwProblems) = Len(hwOriginal)
                /\ ReplacedBy(k, HwFixes[1])
                /\ \A j \in 1..Len(hwOriginal) : j # k => hwProblems[j] = hwOriginal[j]

C11_Witness ==
    /\ OneFix
    /\ Len(hwOriginal) >= 2
    /\ \E k \in 1..Len(hwOriginal) :
        /\ OnlyStatementMatch(k, HwFixes[1])
        /\ \E j \in (k + 1)..Len(hwOriginal) : SameAnswer(hwOriginal[j], HwFixes[1])
        /\ ReplacedBy(k, HwFixes[1])

\* record k of the deep-analysis sequence was replaced by the merge
Replaced(k) == k <= Len(hwProblems) /\ hwProblems[k] # hwOriginal[k]

\* the run returned a response
HwReturned == hwPc = "done" /\ hwResult.kind = "return"

\* C12: every record the merge replaced is returned with validation status
\* 'verified' and confidenceScore 99, whatever validation data the corrected
\* record carries.
C12_ReplacedReturnedVerified99 ==
    (HwRefined /\ HwReturned) =>
        \A k \in 1..Len(hwOriginal) :
            Replaced(k) =>
                /\ OptGet(hwResult.value.problems[k].validation, Key.status)
                      = Str(<<"v", "e", "r", "i", "f", "i", "e", "d">>)
                /\ OptGet(hwResult.value.problems[k].validation, Key.confidenceScore)
                      = Num(99)

\* the refinement call of the finished run failed
RefineFailed == HwRefined /\ StageFailed(hwLog, "refine")

\* returned record i shows deep-analysis record p
Shows(i, p) ==
    LET r == hwResult.value.problems[i]
    IN  /\ r.id = i
        /\ r.problemStatement = Get(p, Key.problem_statement)
        /\ r.studentAnswer = Get(p, Key.student_answer)
        /\ r.explanation = Get(p, Key.complete_solution)
        /\ OptGet(r.validation, Key.status) = OptGet(Get(p, Key.validation_check), Key.status)
        /\ OptGet(r.validation, Key.confidenceScore)
              = OptGet(Get(p, Key.validation_check), Key.confidence_score)

\* C13: a failed refinement call (quota on the SMART tier included, for which
\* no fallback is attempted) does not fail analyzeHomework: the run returns,
\* and its problem sequence is the deep-analysis sequence, record for record.
C13_RefinementFailureNonFatal ==
    RefineFailed =>
        /\ hwResult.kind = "return"
        /\ Len(Entries(hwLog, "refine")) = 1
        /\ Entries(hwLog, "refine")[1].model = MODEL_SMART
        /\ hwProblems = hwOriginal
        /\ Len(hwResult.value.problems) = Len(hwOriginal)
        /\ \A i \in 1..Len(hwOriginal) : Shows(i, hwOriginal[i])

C13_Witness ==
    /\ RefineFailed
    /\ Entries(hwLog, "refine")[1].outcome.error.status = 429
    /\ Len(hwOriginal) = 2
    /\ hwResult.kind = "return"
    /\ Shows(2, hwOriginal[2])

\* the validation data of a deep-analysis record
StatusOf(p) == OptGet(OptGet(p, Key.validation_check), Key.status)
ScoreOf(p) == OptGet(OptGet(p, Key.validation_check), Key.confidence_score)

HasWarning(p) == StatusOf(p) = Str(<<"w", "a", "r", "n", "i", "n", "g">>)
ScoreBelow80(p) == ScoreOf(p).t = "num" /\ ScoreOf(p).v < 80
NoScore(p) == ScoreOf(p).t \in {"undef", "null"}

\* the run is over and its deep-analysis call was answered with records
HwAnalysed ==
    /\ hwPc = "done"
    /\ Entries(hwLog, "deep") # <<>>
    /\ ~StageFailed(hwLog, "deep")
    /\ \A i \in 1..Len(hwOriginal) : hwOriginal[i].t = "obj"

\* C14 as stated: the refinement stage is invoked, exactly once, if and only
\* if some deep-analysis record has validation status 'warning' or a
\* confidence score below 80, records without validation data included;
\* otherwise no refinement call is made.
C14_RefinedIffWarningOrBelow80 ==
    HwAnalysed =>
        IF \E i \in 1..Len(hwOriginal) :
                HasWarning(hwOriginal[i]) \/ ScoreBelow80(hwOriginal[i])
        THEN Len(Entries(hwLog, "refine")) = 1
        ELSE Len(Entries(hwLog, "refine")) = 0

\* C14 amended: the same with a record that carries no confidence score (a
\* record without validation data for one) counted as having score 0, below 80.
C14_RefinedIffWarningOrBelow80OrNoScore ==
    HwAnalysed =>
        IF \E i \in 1..Len(hwOriginal) :
                \/ HasWarning(hwOriginal[i])
                \/ ScoreBelow80(hwOriginal[i])
                \/ NoScore(hwOriginal[i])
        THEN Len(Entries(hwLog, "refine")) = 1
        ELSE Len(Entries(hwLog, "refine")) = 0

C14_Witness ==
    /\ HwAnalysed
    /\ Len(hwOriginal) = 2
    /\ NoScore(hwOriginal[2])
    /\ \A i \in 1..2 : ~HasWarning(hwOriginal[i]) /\ ~ScoreBelow80(hwOriginal[i])
    /\ Len(Entries(hwLog, "refine")) = 1

\* a record the selection leaves out: status 'verified' and confidence >= 80
Unselected(p) ==
    /\ StatusOf(p) = Str(<<"v", "e", "r", "i", "f", "i", "e", "d">>)
    /\ ScoreOf(p).t = "num"
    /\ ScoreOf(p).v >= 80

\* C15: only records selected for refinement are mutable.  Whatever the
\* refinement stage returns, a deep-analysis record with status 'verified'
\* and confidence >= 80 is never replaced by the merge.
C15_UnselectedNeverReplaced ==
    (HwRefined /\ HwAnalysed) =>
        /\ Len(hwProblems) = Len(hwOriginal)
        /\ \A k \in 1..Len(hwOriginal) :
              Unselected(hwOriginal[k]) => hwProblems[k] = hwOriginal[k]

\* corrected record i matches no deep-analysis record and no other corrected
\* record, on problem_statement or on student_answer
Unmatched(i) ==
    /\ HwFixes[i].t = "obj"
    /\ \A j \in 1..Len(hwOriginal) :
          ~SameStatement(hwOriginal[j], HwFixes[i]) /\ ~SameAnswer(hwOriginal[j], HwFixes[i])
    /\ \A j \in 1..Len(HwFixes) :
          (j # i /\ HwFixes[j].t = "obj") =>
              ~SameStatement(HwFixes[j], HwFixes[i]) /\ ~SameAnswer(HwFixes[j], HwFixes[i])

\* C16: no record is deleted or added within one analysis run.  Whatever the
\* refinement stage returns, the returned problem sequence is as long as the
\* deep-analysis sequence, its ids are 1..n in order, and no unmatched
\* corrected record is in it.
C16_NoRecordAddedOrDeleted ==
    /\ (HwRefined /\ HwAnalysed) => hwResult.kind = "return"
    /\ (HwAnalysed /\ HwReturned) =>
          /\ Len(hwResult.value.problems) = Len(hwOriginal)
          /\ \A k \in 1..Len(hwOriginal) : hwResult.value.problems[k].id = k
          /\ \A i \in 1..Len(HwFixes) :
                Unmatched(i) =>
                    \A k \in 1..Len(hwOriginal) :
                        hwResult.value.problems[k].problemStatement
                            # Get(HwFixes[i], Key.problem_statement)

C16_Witness ==
    /\ HwRefined
    /\ HwAnalysed
    /\ HwReturned
    /\ Len(HwFixes) = 2
    /\ Unmatched(2)
    /\ Len(hwOriginal) = 2
    /\ Replaced(1)
    /\ Len(hwResult.value.problems) = 2

\* the reply a stage of a run parsed, undefined when its call failed or was
\* not made
ReplyOf(log, stage) ==
    LET es == Entries(log, stage)
    IN  IF Len(es) > 0 /\ es[Len(es)].outcome.ok
        THEN cleanAndParseJSON(es[Len(es)].outcome.output.text).val
        ELSE Undef

\* the run of solveMathWithCode is over and its verification call was made
MathVerified == mPc = "done" /\ Entries(mLog, "verify") # <<>>

\* the fields of a payload
FieldsOf(x) == IF x.t = "obj" THEN x.v ELSE <<>>

\* C17: when the verification stage returns {valid: false,
\* corrected_response: R}, solveMathWithCode returns exactly the fields of R,
\* none carried over from the solve-stage output, with wasAutoRepaired true;
\* when it returns {valid: true}, it returns the solve-stage output with
\* wasAutoRepaired false.
C17_ResolutionByVerdict ==
    MathVerified =>
        LET reply == ReplyOf(mLog, "verify")
            R == OptGet(reply, Key.corrected_response)
        IN  /\ (OptGet(reply, Key.valid) = Bool(FALSE) /\ R.t = "obj") =>
                  /\ mResult.kind = "return"
                  /\ mResult.value.members = R.v
                  /\ mResult.value.wasAutoRepaired = TRUE
            /\ OptGet(reply, Key.valid) = Bool(TRUE) =>
                  /\ mResult.kind = "return"
                  /\ mResult.value.members = FieldsOf(mFirstPass)
                  /\ mResult.value.wasAutoRepaired = FALSE

C17_Witness ==
    /\ MathVerified
    /\ OptGet(ReplyOf(mLog, "verify"), Key.valid) = Bool(FALSE)
    /\ Get(mFirstPass, Key.explanation) # Undef
    /\ mResult.value.members = <<Member(Key.result, Str(<<"2">>))>>
    /\ mResult.value.wasAutoRepaired

\* the run of solveMathWithCode returned a payload
MathReturned == mPc = "done" /\ mResult.kind = "return"

\* the verification reply carries a corrected response
HasCorrection(reply) == OptGet(reply, Key.corrected_response).t \notin {"undef", "null"}

\* C18: in every result of solveMathWithCode wasAutoRepaired is true if and
\* only if the corrected response of the verification stage replaced the
\* first-pass result, whatever the verification did: call error, unparseable
\* response, valid true, valid false without a corrected response, valid
\* false with one.
C18_RepairedIffReplaced ==
    MathReturned =>
        LET reply == ReplyOf(mLog, "verify")
            R == OptGet(reply, Key.corrected_response)
            flag == mResult.value.wasAutoRepaired
        IN  /\ flag => (HasCorrection(reply) /\ (R.t = "obj" => mResult.value.members = R.v))
            /\ ~flag => mResult.value.members = FieldsOf(mFirstPass)
            /\ StageFailed(mLog, "verify") => ~flag
            /\ reply = EmptyObj => ~flag
            /\ OptGet(reply, Key.valid) = Bool(TRUE) => ~flag
            /\ (OptGet(reply, Key.valid) = Bool(FALSE) /\ ~HasCorrection(reply)) => ~flag
            /\ (OptGet(reply, Key.valid) = Bool(FALSE) /\ R.t = "obj") => flag

C18_Witness ==
    /\ MathReturned
    /\ OptGet(ReplyOf(mLog, "verify"), Key.valid) = Bool(FALSE)
    /\ ~HasCorrection(ReplyOf(mLog, "verify"))
    /\ ~mResult.value.wasAutoRepaired
    /\ mResult.value.members = FieldsOf(mFirstPass)
    /\ mFirstPass # EmptyObj

\* C19: a failure of the verification stage never propagates.  Once the solve
\* stage has succeeded and the verification call is made, solveMathWithCode
\* returns whatever that call does, and when the call fails (quota or not)
\* the solve-stage result stands.
C19_VerificationFailureNonFatal ==
    MathVerified =>
        /\ mResult.kind = "return"
        /\ StageFailed(mLog, "verify") =>
              /\ mResult.value.members = FieldsOf(mFirstPass)
              /\ mResult.value.modelUsed = <<mModel>>
              /\ ~mResult.value.wasAutoRepaired

C19_Witness ==
    /\ MathVerified
    /\ StageFailed(mLog, "verify")
    /\ Entries(mLog, "verify")[1].outcome.error.status = 429
    /\ mResult.kind = "return"
    /\ Get(mFirstPass, Key.result) # Undef
    /\ mResult.value.members = mFirstPass.v

(***************************************************************************)
(* Properties of the chat and exam sessions                                *)
(***************************************************************************)

\* no start has been invoked on the slot
NeverStarted(slot) ==
    \A i \in 1..Len(sessDelivered) :
        ~(sessDelivered[i].op = "start" /\ sessDelivered[i].slot = slot)

\* the step issues a send on the slot: the call numbered SessCalls + 1
SendIssued(slot) ==
    \/ \E c \in sessPending' \ sessPending : c.op = "send" /\ c.slot = slot
    \/ /\ Len(sessFinished') = Len(sessFinished) + 1
       /\ sessPending' = sessPending
       /\ sessFinished'[Len(sessFinished')].op = "send"
       /\ sessFinished'[Len(sessFinished')].slot = slot

\* the step ends a call at once with the slot's error
RejectedAtOnce(slot) ==
    /\ Len(sessFinished') = Len(sessFinished) + 1
    /\ sessPending' = sessPending
    /\ sessFinished'[Len(sessFinished')].error = NotInitialized(slot)
    /\ sessFinished'[Len(sessFinished')].value = Undef

SlotsUnchanged ==
    UNCHANGED <<chatSession, chatModelUsed, examSession, examModelUsed, sessCreated>>

\* C20: for each slot, a send issued when no start has ever been invoked on
\* that slot fails with the slot's own not-initialized error, makes no
\* sendMessage invocation, and leaves both slots as they were, whatever the
\* other slot holds.
C20_SendBeforeStartRejected ==
    [][\A slot \in Slots :
            (SendIssued(slot) /\ NeverStarted(slot))
            => /\ RejectedAtOnce(slot)
               /\ sessDelivered' = sessDelivered
               /\ SlotsUnchanged]_vars

\* a send on a slot never started was rejected while the other slot held a session
C20_Witness ==
    \E slot \in Slots, other \in Slots :
        /\ other # slot
        /\ NeverStarted(slot)
        /\ SessionOf(other) # None.session
        /\ \E i \in 1..Len(sessFinished) :
            /\ sessFinished[i].op = "send"
            /\ sessFinished[i].slot = slot
            /\ sessFinished[i].error = NotInitialized(slot)
            /\ \E j \in 1..Len(sessDelivered) :
                /\ sessDelivered[j].slot = other
                /\ sessDelivered[j].call < sessFinished[i].call

\* the calls delivered to a session, and the calls that have ended
Deliveries == { sessDelivered[i] : i \in 1..Len(sessDelivered) }
Endings == { sessFinished[i] : i \in 1..Len(sessFinished) }

\* the starts invoked on the slot of call c before c
StartsBefore(c) ==
    { s \in Deliveries : s.op = "start" /\ s.slot = c.slot /\ s.call < c.call }

\* s is the last start on its slot before call c
LastStartBefore(s, c) ==
    /\ s \in StartsBefore(c)
    /\ \A t \in StartsBefore(c) : t.call <= s.call

\* the call has returned
Succeeded(c) == \E f \in Endings : f.call = c.call /\ f.error = None.error

\* C21: after a successful start on a slot, every send on that slot up to
\* the next start is delivered to the session that start created, and every
\* such send that returns reports the model recorded at that start (the model
\* the start's apiCall ran with, MODEL_FAST), however many turns lie between.
C21_SendsReachStartedSession ==
    \A s \in Deliveries, c \in Deliveries :
        (c.op = "send" /\ LastStartBefore(s, c) /\ Succeeded(s))
        => /\ c.session = s.session
           /\ \A f \in Endings :
                (f.call = c.call /\ f.error = None.error) => f.value.modelUsed = MODEL_FAST

\* a start returned, and two later sends on its slot reached its session and
\* the second returned
C21_Witness ==
    \E s \in Deliveries, c1 \in Deliveries, c2 \in Deliveries :
        /\ s.op = "start" /\ Succeeded(s)
        /\ c1.op = "send" /\ c2.op = "send"
        /\ c1.call < c2.call
        /\ LastStartBefore(s, c1) /\ LastStartBefore(s, c2)
        /\ c1.session = s.session /\ c2.session = s.session
        /\ Succeeded(c1) /\ Succeeded(c2)

\* the step invokes a start on the slot
StartIssued(slot) == \E c \in sessPending' \ sessPending : c.op = "start" /\ c.slot = slot

\* the step ends a send on the slot
SendEnded(slot) == \E c \in sessPending \ sessPending' : c.op = "send" /\ c.slot = slot

OtherSlot(slot) == IF slot = "chat" THEN "exam" ELSE "chat"

\* the sessions that have been put in a slot or sent a message
SessionsSeen == {chatSession, examSession} \cup { d.session : d \in Deliveries }

\* no send went to a session that an earlier start on its slot had replaced
NoStaleDelivery ==
    \A s \in Deliveries, c \in Deliveries :
        (c.op = "send" /\ s \in StartsBefore(c) /\ ~LastStartBefore(s, c))
        => c.session # s.session

\* C22: a start on a slot puts a newly created session in that slot, no later
\* send reaches the session it replaced, and the other slot's session and
\* model are left as they were; a send changes neither slot.
C22_StartReplacesOwnSlotOnly ==
    [][\A slot \in Slots :
            /\ StartIssued(slot)
               => /\ SessionOf(slot)' \notin SessionsSeen
                  /\ SessionOf(slot)' # None.session
                  /\ SessionOf(OtherSlot(slot))' = SessionOf(OtherSlot(slot))
                  /\ ModelUsedOf(OtherSlot(slot))' = ModelUsedOf(OtherSlot(slot))
                  /\ NoStaleDelivery'
            /\ (SendIssued(slot) \/ SendEnded(slot))
               => /\ UNCHANGED <<chatSession, chatModelUsed, examSession, examModelUsed>>
                  /\ NoStaleDelivery']_vars

\* a second start on a slot replaced the session of the first, and a later
\* send went to the new session
C22_Witness ==
    \E s1 \in Deliveries, s2 \in Deliveries, c \in Deliveries :
        /\ s1.op = "start" /\ s2.op = "start" /\ c.op = "send"
        /\ s1.slot = s2.slot /\ c.slot = s2.slot
        /\ s1.call < s2.call /\ s2.call < c.call
        /\ c.session = s2.session
        /\ c.session # s1.session

\* C23: in every reachable state the chat slot and the exam slot, when both
\* hold a session, hold different sessions.
C23_SlotsNeverShareSession ==
    (chatSession # None.session /\ examSession # None.session) => chatSession # examSession

\* both slots hold a session and a send has gone to one of them
C23_Witness ==
    /\ chatSession # None.session
    /\ examSession # None.session
    /\ \E c \in Deliveries : c.op = "send" /\ c.session \in {chatSession, examSession}

\* start s2 was invoked while start s1, invoked before it, had not completed
Concurrent(s1, s2) ==
    /\ s1.call < s2.call
    /\ \/ s1 \in sessPending
       \/ \E f \in Endings : f.call = s1.call /\ f.at >= s2.call

Completed(c) == \E f \in Endings : f.call = c.call

\* e1 was appended to sessFinished before e2
EndedBefore(c1, c2) ==
    \E i \in 1..Len(sessFinished), j \in 1..Len(sessFinished) :
        i < j /\ sessFinished[i].call = c1.call /\ sessFinished[j].call = c2.call

\* no start was invoked on the slot of s after s
LatestStart(s) ==
    \A t \in Deliveries : (t.op = "start" /\ t.slot = s.slot) => t.call <= s.call

\* C24: of two concurrent starts on one slot the one that wrote the slot last
\* (the one invoked second, the write being part of the invocation) wins: once
\* both have completed the slot holds its session and not the other's,
\* whichever first turn was answered first, and every later send goes to it.
C24_LastWriteWins ==
    \A s1 \in Deliveries, s2 \in Deliveries :
        ( /\ s1.op = "start" /\ s2.op = "start" /\ s1.slot = s2.slot
          /\ Concurrent(s1, s2)
          /\ Completed(s1) /\ Completed(s2)
          /\ LatestStart(s2) )
        => /\ SessionOf(s2.slot) = s2.session
           /\ s2.session # s1.session
           /\ \A c \in Deliveries :
                (c.op = "send" /\ c.slot = s2.slot /\ c.call > s2.call)
                => c.session = s2.session

\* two concurrent starts on a slot completed, the second before the first,
\* and a later send went to the second's session
C24_Witness ==
    \E s1 \in Deliveries, s2 \in Deliveries, c \in Deliveries :
        /\ s1.op = "start" /\ s2.op = "start" /\ s1.slot = s2.slot
        /\ Concurrent(s1, s2)
        /\ EndedBefore(s2, s1)
        /\ c.op = "send" /\ c.slot = s2.slot /\ c.call > s2.call
        /\ c.session = s2.session
        /\ SessionOf(s2.slot) = s2.session

(***************************************************************************)
(* Order of the stages of a run                                            *)
(***************************************************************************)

\* the place of a stage in its pipeline
StageRank(stage) ==
    IF stage \in {"tuning", "search"} THEN 1
    ELSE IF stage \in {"deep", "solve"} THEN 2
    ELSE 3

\* the invocations of the log were made in the order of the stages, and a
\* second invocation of a stage only after the first had failed
InStageOrder(log) ==
    /\ \A i \in 1..Len(log), j \in 1..Len(log) :
            i < j => StageRank(log[i].stage) <= StageRank(log[j].stage)
    /\ \A i \in 1..Len(log) - 1 :
            log[i].stage = log[i + 1].stage => ~log[i].outcome.ok

\* the result of the stage is available
Answered(log, stage) ==
    \E i \in 1..Len(log) : log[i].stage = stage /\ log[i].outcome.ok

\* the stage has been invoked and has settled
Invoked(log, stage) == \E i \in 1..Len(log) : log[i].stage = stage

\* C25: the stages of a run are strictly sequential. In analyzeHomework the
\* deep-analysis call is in flight or settled only with the tuning result
\* available, the refinement call only with the deep-analysis result
\* available; in solveMathWithCode the search call, when made, has been
\* answered before the solve call, and the solve call before the verification
\* call; every invocation of a run was made after the ones before it settled.
C25_StagesSequential ==
    /\ InStageOrder(hwLog)
    /\ InStageOrder(mLog)
    /\ (hwPc = "tuning") => hwLog = <<>>
    /\ (hwPc = "deep" \/ Invoked(hwLog, "deep"))
       => Answered(hwLog, "tuning")
    /\ (hwPc = "deep") => ~Invoked(hwLog, "deep") /\ ~Invoked(hwLog, "refine")
    /\ (hwPc = "refine" \/ Invoked(hwLog, "refine"))
       => Answered(hwLog, "deep")
    /\ (hwPc = "refine") => ~Invoked(hwLog, "refine")
    /\ (mPc = "search") => mLog = <<>>
    /\ (mPc = "solve" \/ Invoked(mLog, "solve"))
       => (Invoked(mLog, "search") => Answered(mLog, "search"))
    /\ (mPc = "solve") => ~Invoked(mLog, "solve") /\ ~Invoked(mLog, "verify")
    /\ (mPc = "verify" \/ Invoked(mLog, "verify"))
       => Answered(mLog, "solve")
    /\ (mPc = "verify") => ~Invoked(mLog, "verify")

\* a run of analyzeHomework went through its three stages, the deep analysis
\* on the fallback model
C25_Witness ==
    /\ hwPc = "done"
    /\ Answered(hwLog, "tuning")
    /\ Answered(hwLog, "deep")
    /\ Invoked(hwLog, "refine")
    /\ Len(hwLog) = 4

\* a run of solveMathWithCode went through search, solve and verification
C25_WitnessMath ==
    /\ mPc = "done"
    /\ Answered(mLog, "search")
    /\ Answered(mLog, "solve")
    /\ Invoked(mLog, "verify")

(***************************************************************************)
(* The model a result names                                                *)
(***************************************************************************)

\* the model whose invocation answered the stage
AnsweredBy(log, stage) ==
    LET es == Entries(log, stage) IN es[Len(es)].model

\* the model that produced returned record k: the one that answered the
\* refinement call when the merge replaced the record, the one that answered
\* the deep-analysis call otherwise
HwProducer(k) ==
    IF Replaced(k) THEN AnsweredBy(hwLog, "refine") ELSE AnsweredBy(hwLog, "deep")

\* the model that produced the returned solution
MathProducer ==
    IF mResult.value.wasAutoRepaired THEN AnsweredBy(mLog, "verify")
    ELSE AnsweredBy(mLog, "solve")

\* C26: the modelUsed of every successful result is the model that produced
\* the payload returned: each record returned by analyzeHomework, replaced by
\* the refinement or not, and the solution returned by solveMathWithCode,
\* replaced by the verification or not.
C26_ModelUsedNamesProducer ==
    /\ HwReturned =>
            \A k \in 1..Len(hwProblems) : hwResult.value.modelUsed = HwProducer(k)
    /\ MathReturned => mResult.value.modelUsed = <<MathProducer>>

\* the part of C26 that the code keeps: results in which no stage after the
\* first pass replaced anything
C26_HoldsWithoutReplacement ==
    /\ HwReturned =>
            \A k \in 1..Len(hwProblems) :
                ~Replaced(k) => hwResult.value.modelUsed = HwProducer(k)
    /\ (MathReturned /\ ~mResult.value.wasAutoRepaired)
       => mResult.value.modelUsed = <<MathProducer>>

(***************************************************************************)
(* The functions that stay clear of the sessions                           *)
(***************************************************************************)

\* the step is one of a run of analyzeHomework, solveMathWithCode,
\* auditExamGrading or a video analysis
RunStep == hwPc' # hwPc \/ mPc' # mPc \/ onePc' # onePc

\* C27: auditExamGrading, analyzeHomework, solveMathWithCode and the video
\* analyses neither write the chat or exam slot or the model recorded beside
\* it, nor send a message into a session, whatever the slots hold.
C27_RunsLeaveSessionsAlone ==
    [][RunStep =>
            /\ UNCHANGED <<chatSession, chatModelUsed, examSession, examModelUsed>>
            /\ UNCHANGED <<sessCreated, sessDelivered, sessPending, sessFinished>>]_vars

\* auditExamGrading returned while both slots held the sessions they held
\* before it was called
C27_Witness ==
    /\ onePc = "done"
    /\ oneResult.fn = "auditExamGrading"
    /\ oneResult.result.kind = "return"
    /\ chatSession = 1
    /\ examSession = 2

\* the step is a finish trigger: handleFinishExam has begun
FinishTriggered ==
    /\ Len(messages') = Len(messages) + 1
    /\ messages'[Len(messages')].role = "user"
    /\ messages'[Len(messages')].text = Str(<<"I", " ", "a", "m", " ", "f", "i", "n", "i", "s", "h", "e", "d", ".", " ", "P", "l", "e", "a", "s", "e", " ", "g", "r", "a", "d", "e", " ", "m", "e", ".">>)

\* the step receives the grading report of a finish
ReportReceived ==
    \E c \in examPending :
        /\ c.handler = "handleFinishExam"
        /\ c \notin examPending'
        /\ Len(messages') = Len(messages) + 1

\* the step issues an auditor call
AuditIssued == Len(examAudits') = Len(examAudits) + 1

AuditThrew ==
    \E i \in DOMAIN examAudits :
        /\ examAudits[i].kind = "pending"
        /\ examAudits'[i].kind = "throw"

\* C29: the step at which the auditor call fails leaves the transcript as it
\* was, the grading report included, adds no message that carries an audit
\* result, and leaves the exam slot and its model as they were
C29_AuditFailureNonFatal ==
    [][ AuditThrew =>
            /\ messages' = messages
            /\ examSession' = examSession
            /\ examModelUsed' = examModelUsed
            /\ examSession # None.session
      ]_vars

\* an auditor call has failed and the transcript ends with the grading report
\* that preceded it
C29_Witness ==
    /\ Len(examAudits) = 1
    /\ examAudits[1].kind = "throw"
    /\ isStarted
    /\ examPending = {}
    /\ Len(messages) >= 3
    /\ messages[Len(messages)].role = "model"
    /\ messages[Len(messages)].examAudit = Undef
    /\ messages[Len(messages) - 1].role = "user"
    /\ EndsWith(examAudits[1].historyText, messages[Len(messages)].text.v)

\* the number box holds under key, or -1 when it holds none
Coordinate(box, key) ==
    IF Get(box, key).t = "num" THEN Get(box, key).v ELSE -1

\* 0 <= xmin <= xmax <= 1000 and 0 <= ymin <= ymax <= 1000
OnScale(box) ==
    /\ 0 <= Coordinate(box, Key.xmin)
    /\ Coordinate(box, Key.xmin) <= Coordinate(box, Key.xmax)
    /\ Coordinate(box, Key.xmax) <= 1000
    /\ 0 <= Coordinate(box, Key.ymin)
    /\ Coordinate(box, Key.ymin) <= Coordinate(box, Key.ymax)
    /\ Coordinate(box, Key.ymax) <= 1000

\* C30: every boundingBox of a returned HomeworkResponse that is an object
\* satisfies 0 <= xmin <= xmax <= 1000 and 0 <= ymin <= ymax <= 1000
C30_BoxesOnScale ==
    HwReturned =>
        \A k \in DOMAIN hwResult.value.problems :
            LET box == hwResult.value.problems[k].boundingBox
            IN  box.t = "obj" => OnScale(box)

\* a run returned a box that the deep-analysis stage gave on the scale
C30_OnScaleReturned ==
    /\ HwReturned
    /\ \E k \in DOMAIN hwResult.value.problems :
        LET box == hwResult.value.problems[k].boundingBox
        IN  box.t = "obj" /\ OnScale(box)

(***************************************************************************)
(* Failure and termination of the pipelines                                *)
(***************************************************************************)

\* the error the callAI of a failed stage threw, from the invocations it made
StageError(log, stage, primaryModel, fallbackModel) ==
    LET es == Entries(log, stage)
    IN  callAI(primaryModel, fallbackModel, es[1].outcome, es[Len(es)].outcome).error

\* the run is over and threw e
FailedWith(pc, result, e) ==
    pc = "done" /\ result.kind = "throw" /\ result.error = e

\* C31: when the tuning call or the deep-analysis call (its fallback
\* included) of analyzeHomework fails, or the search call or the solve call
\* (its fallback included) of solveMathWithCode, the run is over, it threw
\* the error of that call, and no later stage was invoked
C31_TerminalStageFailure ==
    /\ StageFailed(hwLog, "tuning") =>
            /\ FailedWith(hwPc, hwResult, StageError(hwLog, "tuning", MODEL_FAST, None.model))
            /\ ~Invoked(hwLog, "deep") /\ ~Invoked(hwLog, "refine")
    /\ StageFailed(hwLog, "deep") =>
            /\ FailedWith(hwPc, hwResult, StageError(hwLog, "deep", MODEL_SMART, MODEL_FAST))
            /\ ~Invoked(hwLog, "refine")
    /\ StageFailed(mLog, "search") =>
            /\ FailedWith(mPc, mResult, StageError(mLog, "search", MODEL_FAST, None.model))
            /\ ~Invoked(mLog, "solve") /\ ~Invoked(mLog, "verify")
    /\ StageFailed(mLog, "solve") =>
            /\ FailedWith(mPc, mResult, StageError(mLog, "solve", MODEL_SMART, MODEL_FAST))
            /\ ~Invoked(mLog, "verify")

\* the deep-analysis call failed on both models after an answered tuning call
C31_Witness ==
    /\ Answered(hwLog, "tuning")
    /\ Len(Entries(hwLog, "deep")) = 2
    /\ StageFailed(hwLog, "deep")
    /\ hwResult.kind = "throw"
    /\ hwResult.error.message = QuotaExceededMsg

\* how many invocations the log holds for the stage
Invocations(log, stage) == Len(Entries(log, stage))

\* the invocation counts of the runs so far
InvocationBounds ==
    /\ Len(hwLog) <= 4
    /\ Invocations(hwLog, "tuning") <= 1
    /\ Invocations(hwLog, "deep") <= 2
    /\ Invocations(hwLog, "refine") <= 1
    /\ Len(mLog) <= 4
    /\ Invocations(mLog, "search") <= 1
    /\ Invocations(mLog, "solve") <= 2
    /\ Invocations(mLog, "verify") <= 1
    /\ (onePc = "done" /\ oneResult.fn = "auditExamGrading") => Len(oneResult.log) = 1
    /\ \A o \in TurnOutcomes("turn") : Len(callAI(MODEL_FAST, None.model, o, o).made) = 1

\* a run is under way
Running(pc) == pc \notin {"idle", "done"}

\* C32: with every invocation returning or failing, a run that has begun
\* comes to its end; analyzeHomework invokes the provider at most 4 times
\* (tuning 1, deep analysis 2, refinement 1), solveMathWithCode at most 4
\* times (search 1, solve 2, verification 1), and the calls made without a
\* fallback (tuning, refinement, search, verification, audit, the first
\* turn of a start) invoke it once
C32_BoundedInvocations ==
    /\ []InvocationBounds
    /\ (Running(hwPc) \/ Running(mPc) \/ Running(onePc))
            ~> (~Running(hwPc) /\ ~Running(mPc) /\ ~Running(onePc))

\* a run of solveMathWithCode ended after four invocations
C32_Witness ==
    /\ mPc = "done"
    /\ Len(mLog) = 4
    /\ Invocations(mLog, "solve") = 2

\* ---------------------------------------------------------------------
\* Grounding of solveMathWithCode
\* ---------------------------------------------------------------------

\* the citations of the search call of the run: the web chunks of its reply
Gathered ==
    IF Invocations(mLog, "search") = 0 THEN <<>>
    ELSE Entries(mLog, "search")[1].outcome.output.chunks

\* C33: solveMathWithCode invokes the search call if and only if useSearch
\* is set, and before any solve call; the sources of every result are the
\* citations gathered by that search call, none when useSearch is not set,
\* in the repaired result as in the first-pass one
C33_GroundingAndSources ==
    /\ Invocations(mLog, "search") > 0 => mUseSearch
    /\ (mUseSearch /\ mPc \notin {"idle", "search"}) => Invocations(mLog, "search") = 1
    /\ \A i \in 1..Len(mLog), j \in 1..Len(mLog) :
            (mLog[i].stage = "search" /\ mLog[j].stage # "search") => i < j
    /\ MathReturned =>
            /\ mResult.value.sources = Gathered
            /\ ~mUseSearch => mResult.value.sources = <<>>

\* a repaired result that carries the two citations of the search call
C33_Witness ==
    /\ MathReturned
    /\ mUseSearch
    /\ mResult.value.wasAutoRepaired
    /\ Len(Gathered) = 2
    /\ mResult.value.sources = Gathered

(***************************************************************************)
(* Two runs side by side: analyzeHomework and solveMathWithCode are both   *)
(* called before either has returned, and their awaited calls settle in    *)
(* any order.                                                              *)
(***************************************************************************)

\* analyzeHomework keeping the model of its call in a variable it shares
\* with solveMathWithCode
analyzeHomeworkCalled_sharesModel ==
    /\ hwPc = "idle"
    /\ hwPc' = "tuning"
    /\ mModel' = None.model
    /\ UNCHANGED <<hwLog, hwContext, hwModel, hwProblems, hwToRefine, hwOriginal,
                   hwRefined, hwResult, mPc, mLog, mUseSearch, mSources, mFirstPass, mResult,
                   parseVars, callVars, sessVars, oneVars, examVars>>

\* lines 150-172: analyzeHomework is called while other runs may be under way
analyzeHomeworkCalled ==
    /\ hwPc = "idle"
    /\ hwPc' = "tuning"
    /\ UNCHANGED <<hwLog, hwContext, hwModel, hwProblems, hwToRefine, hwOriginal,
                   hwRefined, hwResult,
                   mVars, parseVars, callVars, sessVars, oneVars, examVars>>

\* lines 587-598: solveMathWithCode is called while other runs may be under way
solveMathWithCodeCalled ==
    /\ mPc = "idle"
    /\ \E useSearch \in BOOLEAN :
        /\ mUseSearch' = useSearch
        /\ mPc' = IF useSearch THEN "search" ELSE "solve"
    /\ UNCHANGED <<mLog, mSources, mFirstPass, mModel, mResult,
                   hwVars, parseVars, callVars, sessVars, oneVars, examVars>>

\* what callAI gave the stage, from the invocations the run made for it
Settled(log, stage, primaryModel, fallbackModel) ==
    LET es == Entries(log, stage)
    IN  callAI(primaryModel, fallbackModel, es[1].outcome, es[Len(es)].outcome)

\* lines 150-297: analyzeHomework run by itself on the replies in the log
analyzeHomework(log) ==
    LET tuningRes == Settled(log, "tuning", MODEL_FAST, None.model)
        contextData == Parsed(tuningRes)
        context == Destructure(contextData)
        analysisRes == Settled(log, "deep", MODEL_SMART, MODEL_FAST)
        read == ProblemsOf(Parsed(analysisRes))
        filtered == FilterToRefine(read.problems)
        refineRes == Settled(log, "refine", MODEL_SMART, None.model)
    IN  IF ~tuningRes.ok THEN Thrown(tuningRes.error)
        ELSE IF ~Readable(contextData) \/ PromptThrows(context) THEN Thrown(TypeError)
        ELSE IF ~analysisRes.ok THEN Thrown(analysisRes.error)
        ELSE IF read.threw \/ filtered.threw THEN Thrown(TypeError)
        ELSE [kind |-> "return",
              value |-> HomeworkResponse(context, analysisRes.model,
                            IF Len(filtered.selected) > 0
                            THEN AfterRefinement(read.problems.v, refineRes)
                            ELSE read.problems.v)]

\* lines 587-706: solveMathWithCode run by itself on the replies in the log
solveMathWithCode(useSearch, log) ==
    LET searchRes == Settled(log, "search", MODEL_FAST, None.model)
        sources == IF useSearch THEN searchRes.output.chunks ELSE <<>>
        res == Settled(log, "solve", MODEL_SMART, MODEL_FAST)
        firstPassData == Parsed(res)
        verifyRes == Settled(log, "verify", MODEL_FAST, None.model)
    IN  IF useSearch /\ ~searchRes.ok THEN Thrown(searchRes.error)
        ELSE IF ~res.ok THEN Thrown(res.error)
        ELSE IF ~Readable(firstPassData) THEN Thrown(TypeError)
        ELSE Resolved(firstPassData, verifyRes, Parsed(verifyRes), res.model, sources)

\* the reply logged last is a failure or one of the texts drawn for the two
\* runs side by side
Drawn(log) ==
    \/ log = <<>>
    \/ ~log[Len(log)].outcome.ok
    \/ LET stage == log[Len(log)].stage
           text == log[Len(log)].outcome.output.text
       IN  CASE stage = "tuning" -> text \in {Undef, JsonText(GoodTuning)}
             [] stage = "deep" ->
                    text \in {Garbled, JsonText(ProblemsReply(<<Problem.B95, Problem.A60>>))}
             [] stage = "refine" -> text \in {Undef, JsonText(ProblemsReply(<<Fix.A>>))}
             [] stage = "search" -> text \in MathTexts.search
             [] stage = "solve" -> text \in {Garbled, JsonText(Solution(<<"e">>, <<"1">>))}
             [] stage = "verify" ->
                    text \in {Garbled,
                              JsonText(Obj(<<Member(Key.valid, Bool(FALSE)),
                                             Member(Key.corrected_response,
                                                    Solution(<<"f">>, <<"2">>))>>))}

NextSideBySide ==
    /\ \/ analyzeHomeworkCalled
       \/ HwTuningSettles
       \/ HwDeepSettles
       \/ HwRefineSettles
       \/ solveMathWithCodeCalled
       \/ MathSearchSettles
       \/ MathSolveSettles
       \/ MathVerifySettles
    /\ Drawn(hwLog') /\ Drawn(mLog')

SpecSideBySide == InitPipeline /\ [][NextSideBySide]_vars

FailedBefore(s, n) ==
    \E f \in Endings : f.call = s.call /\ f.error # None.error /\ f.at < n

\* the start has failed
Failed(s) == FailedBefore(s, SessCalls + 1)

\* the session a slot would hold if every failed start had put back what
\* the slot held: that of the last start on the slot that has not failed
KeptSession(slot) ==
    LET kept == { s \in Deliveries : s.op = "start" /\ s.slot = slot /\ ~Failed(s) }
    IN  IF kept = {} THEN None.session
        ELSE (CHOOSE s \in kept : \A t \in kept : t.call <= s.call).session

\* C35: a start that fails leaves its slot holding what it held before, so
\* that a send on a slot whose starts have all failed is thrown out with
\* the slot's not-initialized error and reaches no session
C35_FailedStartRestores ==
    /\ \A slot \in Slots : SessionOf(slot) = KeptSession(slot)
    /\ \A c \in Deliveries :
            c.op = "send" => \E s \in StartsBefore(c) : ~FailedBefore(s, c.call)

\* the first start on a slot failed and a later send on the slot went to the
\* session that start had created
C35_SendAfterFailedStart ==
    \E s \in Deliveries, c \in Deliveries :
        /\ s.op = "start" /\ c.op = "send" /\ c.slot = s.slot
        /\ StartsBefore(c) = {s}
        /\ FailedBefore(s, c.call)
        /\ c.session = s.session

\* the model the start was invoked with, as the start reported it on return
ReportedModel(f) == IF f.slot = "chat" THEN f.value.model ELSE f.value.modelUsed

\* C36: whenever a slot holds a session, the model recorded beside it is the
\* model that session was created with: the one model a start's apiCall is
\* invoked with, and the one the start that created the session reports on
\* return, however starts and sends interleave
C36_RecordedModelIsSessionModel ==
    \A slot \in Slots :
        SessionOf(slot) # None.session
        => /\ \A o \in TurnOutcomes("turn") :
                ModelUsedOf(slot) = callAI(MODEL_FAST, None.model, o, o).made[1].model
           /\ \A f \in Endings :
                (f.op = "start" /\ f.session = SessionOf(slot) /\ f.error = None.error)
                => ReportedModel(f) = ModelUsedOf(slot)

\* two starts on one slot overlapped, the second returned, and the slot holds
\* its session with the model it reported
C36_Witness ==
    \E s1 \in Deliveries, s2 \in Deliveries, f \in Endings :
        /\ s1.op = "start" /\ s2.op = "start" /\ s1.slot = s2.slot
        /\ Concurrent(s1, s2)
        /\ f.call = s2.call /\ f.error = None.error
        /\ SessionOf(s2.slot) = s2.session
        /\ ReportedModel(f) = ModelUsedOf(s2.slot)

\* C38: a slot that holds a session holds one after every step, start, send
\* or settling of either, and no send on it is thrown out with the
\* not-initialized error from then on
C38_SlotStaysInitialized ==
    [][\A slot \in Slots :
            SessionOf(slot) # None.session
            => /\ SessionOf(slot)' # None.session
               /\ ~(SendIssued(slot) /\ RejectedAtOnce(slot))]_vars

\* on a slot holding a session a send failed, and a later send on the slot
\* was delivered to the session
C38_Witness ==
    \E s \in Deliveries, c1 \in Deliveries, c2 \in Deliveries, f \in Endings :
        /\ s.op = "start" /\ c1.op = "send" /\ c2.op = "send"
        /\ c1.slot = s.slot /\ c2.slot = s.slot
        /\ s.call < c1.call /\ c1.call < c2.call
        /\ f.call = c1.call /\ f.error # None.error /\ f.at < c2.call
        /\ c2.session = SessionOf(s.slot)
        /\ SessionOf(s.slot) # None.session

(***************************************************************************)
(* The exam component with every awaited call settling                     *)
(***************************************************************************)

\* every awaited call of a handler resolves or rejects
SpecExamFair ==
    /\ InitExam
    /\ [][NextExam]_vars
    /\ WF_vars(\/ ExamStartSettles \/ ExamSendSettles
               \/ FinishGradingSettles \/ FinishAuditSettles)

\* handleFinishExam is awaiting the grading report or the audit
Finishing ==
    \E c \in examPending : c.handler \in {"handleFinishExam", "auditExamGrading"}

\* C37: once handleFinishExam has been triggered, whatever the grading call
\* and the audit call do, loading and isAuditing are eventually both false
C37_FinishReturnsToIdle == Finishing ~> (~loading /\ ~isAuditing)

\* loading by itself is cleared after every finish
C37_LoadingCleared == Finishing ~> ~loading

\* the audit call of a finish failed, no call is awaited any more, and
\* isAuditing is still set
C37_StuckAuditing ==
    /\ examPending = {}
    /\ ~loading
    /\ isAuditing
    /\ \E i \in 1..Len(examAudits) : examAudits[i].kind = "throw"

(***************************************************************************)
(* generateVerifiedVisualAid: an image is generated, then validated.       *)
(***************************************************************************)

MaxParts == 2

\* what the generation call may settle with: an error, or a response with
\* no candidate or with candidates[0].content.parts, a part being text only
\* or inline data
ImageOutcomes(n) ==
    LET InlinePart(inlineData) == Obj(<<Member(Key.inlineData, inlineData)>>)
        Inline(mimeType, data) ==
            InlinePart(Obj(<<Member(Key.mimeType, mimeType), Member(Key.data, data)>>))
        kinds == { Obj(<<Member(<<"t", "e", "x", "t">>, Str(<<"o", "k">>))>>),
                   Inline(Undef, Str(<<"Q">>)),
                   Inline(Str(<<"i", "m", "a", "g", "e", "/", "j", "p", "e", "g">>), Str(<<"R">>)),
                   Inline(Undef, Str(<<>>)),
                   InlinePart(Obj(<<>>)) }
    IN  {Responded([text |-> Undef, chunks |-> <<>>, parts |-> ps]) :
            ps \in {Undef} \cup {Arr(x) : x \in SeqsUpTo(kinds, MaxParts)}}
        \cup {Threw(e) : e \in PipelineErrors(n)}

\* lines 323-332: the data URL of the first part from the i-th on that
\* carries inline data, "" when there is none or no parts
RECURSIVE ContentOf(_, _)
ContentOf(parts, i) ==
    IF ~Truthy(parts) \/ i > Len(parts.v) THEN Str(<<>>)
    ELSE LET inlineData == Get(parts.v[i], Key.inlineData)
         IN  IF Truthy(inlineData) /\ Truthy(Get(inlineData, Key.data))
             THEN Str(<<"d", "a", "t", "a", ":">>
                      \o TextOr(Get(inlineData, Key.mimeType),
                                Str(<<"i", "m", "a", "g", "e", "/", "p", "n", "g">>)).v
                      \o <<";", "b", "a", "s", "e", "6", "4", ",">>
                      \o Get(inlineData, Key.data).v)
             ELSE ContentOf(parts, i + 1)

\* line 333: new Error("No image generated.")
NoImageGenerated ==
    [id |-> "new", status |-> 0, detail |-> <<>>,
     message |-> <<"N", "o", " ", "i", "m", "a", "g", "e", " ", "g", "e", "n", "e", "r", "a", "t", "e", "d", ".">>]

\* a result that reports the model of the validation call
VisualAid_reportsValidator(content, genRes, valRes) ==
    [kind |-> "return",
     value |-> [type |-> "image", content |-> content,
                validation |-> [members |-> SelectSeq(Spread(Parsed(valRes)),
                                                      LAMBDA mb : mb.k # Key.modelUsed),
                                modelUsed |-> valRes.model]]]

\* lines 349-356: { type, content, validation: { ...cleanAndParseJSON(text),
\* modelUsed: genRes.model } }; modelUsed replaces a member of that name
VisualAid(content, genRes, valRes) ==
    [kind |-> "return",
     value |-> [type |-> "image", content |-> content,
                validation |-> [members |-> SelectSeq(Spread(Parsed(valRes)),
                                                      LAMBDA mb : mb.k # Key.modelUsed),
                                modelUsed |-> genRes.model]]]

\* lines 304-311: generateVerifiedVisualAid is called and issues the
\* generation call
generateVerifiedVisualAid ==
    /\ onePc = "idle"
    /\ hwPc = "idle"
    /\ mPc = "idle"
    /\ onePc' = "generation"
    /\ UNCHANGED <<oneResult, hwVars, mVars, parseVars, callVars, sessVars, examVars>>

\* lines 311-335: the generation call settles; with an image in the response
\* the validation call is issued
ImageGenSettles ==
    /\ onePc = "generation"
    /\ \E o1 \in ImageOutcomes("first") :
       \E o2 \in IF Len(callAI(MODEL_IMAGE_SMART, MODEL_IMAGE_FAST, o1, o1).made) = 2
                 THEN ImageOutcomes("second") ELSE {o1} :
       \E genRes \in {callAI(MODEL_IMAGE_SMART, MODEL_IMAGE_FAST, o1, o2)} :
       \E content \in {IF genRes.ok THEN ContentOf(genRes.output.parts, 1) ELSE Str(<<>>)} :
            IF ~genRes.ok
            THEN /\ oneResult' = [fn |-> "generateVerifiedVisualAid",
                                  result |-> Thrown(genRes.error),
                                  log |-> Logged("generation", genRes)]
                 /\ onePc' = "done"
            ELSE IF ~Truthy(content)
            THEN /\ oneResult' = [fn |-> "generateVerifiedVisualAid",
                                  result |-> Thrown(NoImageGenerated),
                                  log |-> Logged("generation", genRes)]
                 /\ onePc' = "done"
            ELSE /\ oneResult' = [fn |-> "generateVerifiedVisualAid",
                                  result |-> None.result,
                                  log |-> Logged("generation", genRes),
                                  content |-> content, genRes |-> genRes]
                 /\ onePc' = "validation"
    /\ UNCHANGED <<hwVars, mVars, parseVars, callVars, sessVars, examVars>>

\* lines 335-357: the validation call settles and the function returns, or
\* throws what the call threw
VisValSettles ==
    /\ onePc = "validation"
    /\ \E o \in StageOutcomes({Undef, Garbled, JsonText(Null),
                               JsonText(Obj(<<Member(Key.isAccurate, Bool(TRUE))>>)),
                               JsonText(Obj(<<Member(Key.isAccurate, Bool(FALSE)),
                                              Member(Key.modelUsed, Str(<<"x">>))>>))},
                              "first") :
       \E valRes \in {callAI(MODEL_FAST, None.model, o, o)} :
            oneResult' = [fn |-> "generateVerifiedVisualAid",
                          result |-> IF valRes.ok
                                     THEN VisualAid(oneResult.content, oneResult.genRes, valRes)
                                     ELSE Thrown(valRes.error),
                          log |-> oneResult.log \o Logged("validation", valRes)]
    /\ onePc' = "done"
    /\ UNCHANGED <<hwVars, mVars, parseVars, callVars, sessVars, examVars>>

NextVisual ==
    \/ generateVerifiedVisualAid
    \/ ImageGenSettles
    \/ VisValSettles

SpecVisual == InitPipeline /\ [][NextVisual]_vars

\* the generation call of the run returned, and what it returned
Generated == Invocations(oneResult.log, "generation") > 0
             /\ oneResult.log[Invocations(oneResult.log, "generation")].outcome.ok
GeneratedBy == oneResult.log[Invocations(oneResult.log, "generation")]

\* the response carries a part with inline data that is not empty
HasImage(output) ==
    /\ output.parts.t = "arr"
    /\ \E i \in 1..Len(output.parts.v) :
            LET d == Get(Get(output.parts.v[i], Key.inlineData), Key.data)
            IN  d.t = "str" /\ d.v # <<>>

\* C39: generateVerifiedVisualAid invokes the validation call, on MODEL_FAST
\* and once, only after the generation call, made on MODEL_IMAGE_SMART and
\* on MODEL_IMAGE_FAST after it, has returned a response with an image; when
\* the response has no image the function throws "No image generated." with
\* no validation call invoked; a result names as modelUsed the model whose
\* generation call returned the image
C39_ValidationAfterImage ==
    oneResult # None.result =>
        LET log == oneResult.log
            gen == Entries(log, "generation")
            val == Entries(log, "validation")
        IN  /\ log = gen \o val
            /\ Len(gen) \in {1, 2} /\ gen[1].model = MODEL_IMAGE_SMART
            /\ Len(gen) = 2 => gen[2].model = MODEL_IMAGE_FAST
            /\ (Len(val) > 0 \/ onePc = "validation")
                    => Generated /\ HasImage(GeneratedBy.outcome.output)
            /\ Len(val) <= 1 /\ \A i \in 1..Len(val) : val[i].model = MODEL_FAST
            /\ (Generated /\ ~HasImage(GeneratedBy.outcome.output))
                    => /\ onePc = "done"
                       /\ oneResult.result = Thrown(NoImageGenerated)
                       /\ val = <<>>
            /\ (onePc = "done" /\ oneResult.result.kind = "return")
                    => /\ Generated /\ Len(val) = 1 /\ val[1].outcome.ok
                       /\ oneResult.result.value.validation.modelUsed = GeneratedBy.model
                       /\ oneResult.result.value.content
                                = ContentOf(GeneratedBy.outcome.output.parts, 1)

\* the fallback generated the image after the first model was out of quota,
\* the validation reply carried a modelUsed member, and the result names the
\* fallback
C39_Witness ==
    /\ onePc = "done"
    /\ oneResult # None.result
    /\ oneResult.result.kind = "return"
    /\ Invocations(oneResult.log, "generation") = 2
    /\ oneResult.result.value.validation.modelUsed = MODEL_IMAGE_FAST
    /\ Get(Parsed(callAI(MODEL_FAST, None.model, oneResult.log[3].outcome,
                         oneResult.log[3].outcome)), Key.modelUsed) # Undef

\* no image came and the function threw without a validation call
C39_NoImage ==
    /\ onePc = "done"
    /\ oneResult # None.result
    /\ oneResult.result = Thrown(NoImageGenerated)
    /\ Invocations(oneResult.log, "validation") = 0

====
